---- MODULE Spec2Model ----
(***************************************************************************)
(* Ball-by-ball scoring engine of the dugout cricket service.              *)
(* The database tables (Match, Inning, Ball, BattingEntry, BowlingEntry,   *)
(* Player totals) are the state; every HTTP handler of src/src/innings.js  *)
(* and the match lifecycle handlers of src/src/match.js are actions.       *)
(***************************************************************************)
EXTENDS Integers, Sequences, FiniteSets, TLC

\* ------------------------------------------------------------------------
\* Bounds of the exploration
\* ------------------------------------------------------------------------
\* rows the Ball table may hold
MaxBalls == 3
\* Inning rows that may be created
MaxInnings == 2

\* ------------------------------------------------------------------------
\* Program constants
\* ------------------------------------------------------------------------
Null == "null"
\* the all-out threshold written in the record-ball handler
AllOutWickets == 10

\* ------------------------------------------------------------------------
\* The fixed environment: two matches, their teams, rosters and roles
\* ------------------------------------------------------------------------
Matches == {"m1", "m2"}
\* matches the callers start, end and open innings in
PlayedMatches == {"m1"}
\* guest holds a VIEWER role on the matches, fan holds no role
Users == {"org", "scorer", "guest", "fan"}
Teams == {"tA", "tB", "tC"}
Roster(t) == IF t = "tA" THEN {"a1", "a2"}
             ELSE IF t = "tB" THEN {"b1", "b2"}
             ELSE {"c1"}
AllPlayers == Roster("tA") \cup Roster("tB") \cup Roster("tC")
\* the opening pair and opening bowler a caller names for a team
Opener(t) == IF t = "tA" THEN "a1" ELSE IF t = "tB" THEN "b1" ELSE "c1"
SecondOpener(t) == IF t = "tA" THEN "a2" ELSE IF t = "tB" THEN "b2" ELSE "c1"
Organiser(m) == "org"
Roles(m) == {[userId |-> "scorer", role |-> "SCORER"],
             [userId |-> "guest", role |-> "VIEWER"]}

BallTypes == {"NORMAL", "FREE_HIT", "WIDE", "NO_BALL", "BYE", "LEG_BYE", "PENALTY"}
RunsValues == {0, 1}
NoWicket == [present |-> FALSE, kind |-> Null, playerId |-> Null]
\* request slots of the interleaved exploration
MaxInFlight == 2
Slots == 1..MaxInFlight

VARIABLES
    matches,          \* Match table: id -> row
    innings,          \* Inning table: sequence of rows, the id is the index
    balls,            \* Ball table: rows in creation order
    battingEntries,   \* BattingEntry table: rows in creation order
    bowlingEntries,   \* BowlingEntry table: rows in creation order
    players,          \* Player table: id -> lifetime totals
    response,         \* the response of the request handled last
    endedInnings,     \* innings for which a record-ball response said inningEnded
    inflight          \* record-ball requests between their first read and their response

dbVars == <<matches, innings, balls, battingEntries, bowlingEntries, players>>
vars == <<matches, innings, balls, battingEntries, bowlingEntries, players,
          response, endedInnings, inflight>>

\* ------------------------------------------------------------------------
\* Helpers
\* ------------------------------------------------------------------------
Merge(a, b) == [k \in (DOMAIN a) \cup (DOMAIN b) |->
                  IF k \in DOMAIN b THEN b[k] ELSE a[k]]

Min(a, b) == IF a <= b THEN a ELSE b
Max(a, b) == IF a >= b THEN a ELSE b

SelectIdx(s, Test(_)) == {k \in 1..Len(s) : Test(s[k])}

SetMax(S) == CHOOSE x \in S : \A y \in S : x >= y

AnyDelivery == [runs |-> 0, ballType |-> "NORMAL", wicket |-> NoWicket,
                manualStrikeChange |-> FALSE]

\* a request slot with no request in it
Idle == [pc |-> "idle", matchId |-> Null, inningId |-> 0, d |-> AnyDelivery,
         inn |-> <<>>, lb |-> 0, ended |-> FALSE, found |-> 0, row |-> <<>>,
         lastOrder |-> 0]

\* the answer to a request that is not a record-ball request
Resp(op, code) == [op |-> op, code |-> code, inningEnded |-> FALSE,
                   matchId |-> Null, inningId |-> 0, d |-> AnyDelivery,
                   playerId |-> Null]

\* the answer to a select-batsman or select-bowler request naming playerId
SelectResp(op, code, matchId, inningId, playerId) ==
    [op |-> op, code |-> code, inningEnded |-> FALSE,
     matchId |-> matchId, inningId |-> inningId, d |-> AnyDelivery,
     playerId |-> playerId]

\* the answer to the record-ball request for delivery d on inning inningId
BallResp(code, inningEnded, matchId, inningId, d) ==
    [op |-> "recordBall", code |-> code, inningEnded |-> inningEnded,
     matchId |-> matchId, inningId |-> inningId, d |-> d, playerId |-> Null]

\* ------------------------------------------------------------------------
\* ensureMatchAccess
\* ------------------------------------------------------------------------
\* variant: any role on the match gives access
ensureMatchAccess_AnyRole(matchId, userId) ==
    LET isOrganiser == Organiser(matchId) # Null /\ Organiser(matchId) = userId
        hasRole == \E r \in Roles(matchId) : r.userId = userId
    IN  IF matchId \notin DOMAIN matches THEN 404
        ELSE IF ~(isOrganiser \/ hasRole) THEN 403
        ELSE 0

ensureMatchAccess(matchId, userId) ==
    LET isOrganiser == Organiser(matchId) # Null /\ Organiser(matchId) = userId
        hasScorerRole == \E r \in Roles(matchId) :
                            /\ r.userId = userId
                            /\ (r.role = "SCORER" \/ r.role = "UMPIRE" \/ r.role = "ORGANISER")
    IN  IF matchId \notin DOMAIN matches THEN 404
        ELSE IF ~(isOrganiser \/ hasScorerRole) THEN 403
        ELSE 0

\* ------------------------------------------------------------------------
\* Record a ball: the computations of POST /:inningId/balls
\* ------------------------------------------------------------------------
\* the filter of legal deliveries used to count balls of an inning
IsLegalBallRow(b) == b.ballType \in {"NORMAL", "FREE_HIT", "BYE", "LEG_BYE"}

legalBallsSoFarOf(ballTable, inningId) ==
    Cardinality({k \in 1..Len(ballTable) :
                    ballTable[k].inningId = inningId /\ IsLegalBallRow(ballTable[k])})

\* variant: manualStrikeChange is ignored
computeNextState_NoManualSwap(runs, ballType, manualStrikeChange, currentOverBalls, ballsPerOver, strikerId, nonStrikerId) ==
    LET addBall == ballType = "NORMAL" \/ ballType = "FREE_HIT"
                   \/ ballType = "BYE" \/ ballType = "LEG_BYE"
        afterRuns == IF addBall /\ runs % 2 = 1
                     THEN <<nonStrikerId, strikerId>>
                     ELSE <<strikerId, nonStrikerId>>
        completesOver == addBall /\ (currentOverBalls + 1) % ballsPerOver = 0
        afterOver == IF completesOver
                     THEN <<afterRuns[2], afterRuns[1]>>
                     ELSE afterRuns
    IN  [nextStrikerId |-> afterOver[1], nextNonStrikerId |-> afterOver[2],
         addBall |-> addBall, completesOver |-> completesOver]

computeNextState(runs, ballType, manualStrikeChange, currentOverBalls, ballsPerOver, strikerId, nonStrikerId) ==
    LET addBall == ballType = "NORMAL" \/ ballType = "FREE_HIT"
                   \/ ballType = "BYE" \/ ballType = "LEG_BYE"
        afterRuns == IF addBall /\ runs % 2 = 1
                     THEN <<nonStrikerId, strikerId>>
                     ELSE <<strikerId, nonStrikerId>>
        afterManual == IF manualStrikeChange
                       THEN <<afterRuns[2], afterRuns[1]>>
                       ELSE afterRuns
        completesOver == addBall /\ (currentOverBalls + 1) % ballsPerOver = 0
        afterOver == IF completesOver
                     THEN <<afterManual[2], afterManual[1]>>
                     ELSE afterManual
    IN  [nextStrikerId |-> afterOver[1], nextNonStrikerId |-> afterOver[2],
         addBall |-> addBall, completesOver |-> completesOver]

\* variant: every delivery is taken as the first ball of its over
nextStateOf_FirstBallOfOver(inn, lb, cfg, d) ==
    computeNextState(d.runs, d.ballType, d.manualStrikeChange, 0,
                     cfg.ballsPerOver, inn.strikerId, inn.nonStrikerId)

\* the state computed for delivery d on inning row inn with lb legal balls so far
nextStateOf(inn, lb, cfg, d) ==
    computeNextState(d.runs, d.ballType, d.manualStrikeChange, lb % cfg.ballsPerOver,
                     cfg.ballsPerOver, inn.strikerId, inn.nonStrikerId)

\* variant: the striker slot is not looked at
selectionPending_NoStrikerCheck(inn) ==
    inn.nonStrikerId = Null \/ inn.currentBowlerId = Null

selectionPending(inn) ==
    inn.strikerId = Null \/ inn.nonStrikerId = Null \/ inn.currentBowlerId = Null

\* variant: no penalty run on top of the reported runs
runsToAddOf_NoPenaltyRun(d) == d.runs

runsToAddOf(d) ==
    IF d.ballType = "WIDE" \/ d.ballType = "NO_BALL" \/ d.ballType = "PENALTY"
    THEN d.runs + 1
    ELSE d.runs

\* variant: a wicket is counted only on a legal delivery
newTotalsOf_LegalWicketsOnly(inn, d) ==
    [runs |-> inn.runs + runsToAddOf(d),
     wickets |-> inn.wickets + (IF d.wicket.present /\ d.ballType \in {"NORMAL", "FREE_HIT", "BYE", "LEG_BYE"}
                                THEN 1 ELSE 0)]

newTotalsOf(inn, d) ==
    [runs |-> inn.runs + runsToAddOf(d),
     wickets |-> inn.wickets + (IF d.wicket.present THEN 1 ELSE 0)]

\* variant: ballInOver without the fallback to 1
ballRowOf_NoFallback(inningId, inn, lb, cfg, d) ==
    LET addBall == nextStateOf(inn, lb, cfg, d).addBall
        pos == (lb % cfg.ballsPerOver) + (IF addBall THEN 1 ELSE 0)
    IN  [inningId |-> inningId,
         overNumber |-> (lb \div cfg.ballsPerOver) + 1,
         ballInOver |-> pos,
         batsmanId |-> inn.strikerId,
         bowlerId |-> inn.currentBowlerId,
         runs |-> d.runs,
         extras |-> IF d.ballType \in {"WIDE", "NO_BALL", "BYE", "LEG_BYE", "PENALTY"}
                    THEN d.ballType ELSE Null,
         ballType |-> d.ballType,
         wicket |-> IF d.wicket.present THEN d.wicket.kind ELSE Null,
         isFour |-> (d.ballType = "NORMAL" \/ d.ballType = "FREE_HIT") /\ d.runs = 4,
         isSix |-> (d.ballType = "NORMAL" \/ d.ballType = "FREE_HIT") /\ d.runs = 6,
         isWicket |-> d.wicket.present /\ d.wicket.kind # Null]

\* the data of prisma.ball.create
ballRowOf(inningId, inn, lb, cfg, d) ==
    LET addBall == nextStateOf(inn, lb, cfg, d).addBall
        pos == (lb % cfg.ballsPerOver) + (IF addBall THEN 1 ELSE 0)
    IN  [inningId |-> inningId,
         overNumber |-> (lb \div cfg.ballsPerOver) + 1,
         ballInOver |-> IF pos = 0 THEN 1 ELSE pos,
         batsmanId |-> inn.strikerId,
         bowlerId |-> inn.currentBowlerId,
         runs |-> d.runs,
         extras |-> IF d.ballType \in {"WIDE", "NO_BALL", "BYE", "LEG_BYE", "PENALTY"}
                    THEN d.ballType ELSE Null,
         ballType |-> d.ballType,
         wicket |-> IF d.wicket.present THEN d.wicket.kind ELSE Null,
         isFour |-> (d.ballType = "NORMAL" \/ d.ballType = "FREE_HIT") /\ d.runs = 4,
         isSix |-> (d.ballType = "NORMAL" \/ d.ballType = "FREE_HIT") /\ d.runs = 6,
         isWicket |-> d.wicket.present /\ d.wicket.kind # Null]

\* variant: the computed rotation is written whatever the wicket names
slotUpdateOf_AlwaysRotates(inn, ns, d) ==
    Merge([strikerId |-> ns.nextStrikerId, nonStrikerId |-> ns.nextNonStrikerId],
          IF d.wicket.present /\ d.wicket.playerId = inn.strikerId
          THEN [strikerId |-> Null]
          ELSE IF d.wicket.present /\ d.wicket.playerId = inn.nonStrikerId
               THEN [nonStrikerId |-> Null]
               ELSE <<>>)

\* handle wicket: the slot columns added to updateData, ns the computed state
slotUpdateOf(inn, ns, d) ==
    IF d.wicket.present /\ d.wicket.playerId # Null
    THEN IF d.wicket.playerId = inn.strikerId
         THEN [strikerId |-> Null]
         ELSE IF d.wicket.playerId = inn.nonStrikerId
              THEN [nonStrikerId |-> Null]
              ELSE <<>>
    ELSE [strikerId |-> ns.nextStrikerId,
          nonStrikerId |-> ns.nextNonStrikerId]

\* variant: the bowler stays in place at the end of the over
updateDataOf_KeepBowler(inn, lb, cfg, d) ==
    LET ns == nextStateOf(inn, lb, cfg, d)
        newLegalBalls == lb + (IF ns.addBall THEN 1 ELSE 0)
        totals == [runs |-> newTotalsOf(inn, d).runs,
                   wickets |-> newTotalsOf(inn, d).wickets,
                   overs |-> newLegalBalls \div cfg.ballsPerOver]
        slots == slotUpdateOf(inn, ns, d)
    IN  Merge(totals, slots)

\* the fields the inning update overwrites
updateDataOf(inn, lb, cfg, d) ==
    LET ns == nextStateOf(inn, lb, cfg, d)
        newLegalBalls == lb + (IF ns.addBall THEN 1 ELSE 0)
        totals == [runs |-> newTotalsOf(inn, d).runs,
                   wickets |-> newTotalsOf(inn, d).wickets,
                   overs |-> newLegalBalls \div cfg.ballsPerOver]
        slots == slotUpdateOf(inn, ns, d)
        bowler == IF ns.completesOver THEN [currentBowlerId |-> Null] ELSE <<>>
    IN  Merge(Merge(totals, slots), bowler)

\* auto end conditions: overs exhausted or ten wickets
endedByLimits(inn, lb, cfg, d) ==
    LET totalLegalBalls == lb + (IF nextStateOf(inn, lb, cfg, d).addBall THEN 1 ELSE 0)
        inningsBallsLimit == cfg.oversLimit * cfg.ballsPerOver
    IN  totalLegalBalls >= inningsBallsLimit
        \/ newTotalsOf(inn, d).wickets >= AllOutWickets

\* variant: level scores already count as the target achieved
targetAchieved_LevelScores(inningTable, inningId, matchId, newRuns) ==
    LET prevInnings == {k \in 1..Len(inningTable) :
                           /\ inningTable[k].matchId = matchId
                           /\ inningTable[k].inningNumber < inningTable[inningId].inningNumber}
    IN  /\ prevInnings # {}
        /\ newRuns >= SetMax({inningTable[k].runs : k \in prevInnings})

\* target achieved check, read from the Inning table
targetAchieved(inningTable, inningId, matchId, newRuns) ==
    LET prevInnings == {k \in 1..Len(inningTable) :
                           /\ inningTable[k].matchId = matchId
                           /\ inningTable[k].inningNumber < inningTable[inningId].inningNumber}
    IN  /\ prevInnings # {}
        /\ newRuns > SetMax({inningTable[k].runs : k \in prevInnings})

battingTeamSizeOf(inn) ==
    IF inn.battingTeamId # Null THEN Cardinality(Roster(inn.battingTeamId)) ELSE 0

\* all out against the size of the batting roster
endedByRoster(inn, d) ==
    LET battingTeamSize == battingTeamSizeOf(inn)
        maxWicketsAllowed == IF battingTeamSize > 0
                             THEN Min(AllOutWickets, battingTeamSize)
                             ELSE AllOutWickets
    IN  d.wicket.present /\ newTotalsOf(inn, d).wickets >= maxWicketsAllowed

inningEndedOf(inningTable, inningId, matchId, inn, lb, cfg, d) ==
    \/ endedByLimits(inn, lb, cfg, d)
    \/ targetAchieved(inningTable, inningId, matchId, newTotalsOf(inn, d).runs)
    \/ endedByRoster(inn, d)

\* variant: the update leaves the striker and non-striker columns alone
applyInningUpdate_KeepsSlots(inningTable, inningId, updateData) ==
    [inningTable EXCEPT ![inningId] =
        [Merge(@, updateData) EXCEPT !.strikerId = inningTable[inningId].strikerId,
                                     !.nonStrikerId = inningTable[inningId].nonStrikerId]]

\* prisma.inning.update: the columns of updateData overwrite those of the row
applyInningUpdate(inningTable, inningId, updateData) ==
    [inningTable EXCEPT ![inningId] = Merge(@, updateData)]

\* ------------------------------------------------------------------------
\* Scorecard updates of POST /:inningId/balls
\* ------------------------------------------------------------------------
\* findFirst: the first row of the inning for the player, 0 when there is none
findEntry(table, inningId, playerId) ==
    LET hits == {k \in 1..Len(table) :
                    table[k].inningId = inningId /\ table[k].playerId = playerId}
    IN  IF hits = {} THEN 0 ELSE CHOOSE x \in hits : \A y \in hits : x <= y

lastOrderOf(table, inningId) ==
    LET rows == {k \in 1..Len(table) : table[k].inningId = inningId}
    IN  IF rows = {} THEN 0 ELSE SetMax({table[k].battingOrder : k \in rows})

\* variant: the boundary counters of an existing entry are left alone
battingUpdateData_NoBoundaries(existingBat, d) ==
    LET legalDeliveryFaced == d.ballType = "NORMAL" \/ d.ballType = "FREE_HIT"
                              \/ d.ballType = "BYE" \/ d.ballType = "LEG_BYE"
        runsToBatter == IF d.ballType = "NORMAL" \/ d.ballType = "FREE_HIT" THEN d.runs ELSE 0
    IN  [runs |-> existingBat.runs + runsToBatter,
         ballsFaced |-> existingBat.ballsFaced + (IF legalDeliveryFaced THEN 1 ELSE 0),
         fours |-> existingBat.fours,
         sixes |-> existingBat.sixes]

\* the columns written to the striker's existing batting entry
battingUpdateData(existingBat, d) ==
    LET addBall == d.ballType = "NORMAL" \/ d.ballType = "FREE_HIT"
                   \/ d.ballType = "BYE" \/ d.ballType = "LEG_BYE"
        legalDeliveryFaced == addBall /\ (d.ballType = "NORMAL" \/ d.ballType = "FREE_HIT"
                                          \/ d.ballType = "BYE" \/ d.ballType = "LEG_BYE")
        runsToBatter == IF d.ballType = "NORMAL" \/ d.ballType = "FREE_HIT" THEN d.runs ELSE 0
    IN  [runs |-> existingBat.runs + runsToBatter,
         ballsFaced |-> existingBat.ballsFaced + (IF legalDeliveryFaced THEN 1 ELSE 0),
         fours |-> existingBat.fours + (IF runsToBatter = 4 THEN 1 ELSE 0),
         sixes |-> existingBat.sixes + (IF runsToBatter = 6 THEN 1 ELSE 0)]

\* variant: byes and leg byes are credited to the striker
battingCreateData_CreditsByes(inningId, batterId, lastOrder, d) ==
    LET legalDeliveryFaced == d.ballType = "NORMAL" \/ d.ballType = "FREE_HIT"
                              \/ d.ballType = "BYE" \/ d.ballType = "LEG_BYE"
        runsToBatter == IF legalDeliveryFaced THEN d.runs ELSE 0
    IN  [inningId |-> inningId,
         playerId |-> batterId,
         battingOrder |-> lastOrder + 1,
         runs |-> runsToBatter,
         ballsFaced |-> IF legalDeliveryFaced THEN 1 ELSE 0,
         fours |-> IF runsToBatter = 4 THEN 1 ELSE 0,
         sixes |-> IF runsToBatter = 6 THEN 1 ELSE 0,
         out |-> FALSE,
         dismissal |-> Null]

\* the batting entry created for a striker without one
battingCreateData(inningId, batterId, lastOrder, d) ==
    LET addBall == d.ballType = "NORMAL" \/ d.ballType = "FREE_HIT"
                   \/ d.ballType = "BYE" \/ d.ballType = "LEG_BYE"
        legalDeliveryFaced == addBall /\ (d.ballType = "NORMAL" \/ d.ballType = "FREE_HIT"
                                          \/ d.ballType = "BYE" \/ d.ballType = "LEG_BYE")
        runsToBatter == IF d.ballType = "NORMAL" \/ d.ballType = "FREE_HIT" THEN d.runs ELSE 0
    IN  [inningId |-> inningId,
         playerId |-> batterId,
         battingOrder |-> lastOrder + 1,
         runs |-> runsToBatter,
         ballsFaced |-> IF legalDeliveryFaced THEN 1 ELSE 0,
         fours |-> IF runsToBatter = 4 THEN 1 ELSE 0,
         sixes |-> IF runsToBatter = 6 THEN 1 ELSE 0,
         out |-> FALSE,
         dismissal |-> Null]

\* batting entry of the striker: update the existing row or create one
upsertBatting(table, inningId, inn, d) ==
    LET existingBat == findEntry(table, inningId, inn.strikerId)
    IN  IF existingBat # 0
        THEN [table EXCEPT ![existingBat] = Merge(@, battingUpdateData(@, d))]
        ELSE Append(table, battingCreateData(inningId, inn.strikerId,
                                             lastOrderOf(table, inningId), d))

markOutData(d) ==
    [out |-> TRUE, dismissal |-> IF d.wicket.kind # Null THEN d.wicket.kind ELSE "OUT"]

\* mark out if wicket with playerId
markOut(table, inningId, d) ==
    IF d.wicket.present /\ d.wicket.playerId # Null
    THEN LET be == findEntry(table, inningId, d.wicket.playerId)
         IN  IF be # 0
             THEN [table EXCEPT ![be] = Merge(@, markOutData(d))]
             ELSE table
    ELSE table

ToUpperCase(kind) == IF kind = "run_out" THEN "RUN_OUT"
                     ELSE IF kind = "bowled" THEN "BOWLED"
                     ELSE kind

\* variant: penalty runs are conceded by the bowler
concedeToBowlerOf_IncludesPenalty(d) ==
    ~(d.ballType = "BYE" \/ d.ballType = "LEG_BYE")

concedeToBowlerOf(d) ==
    ~(d.ballType = "BYE" \/ d.ballType = "LEG_BYE" \/ d.ballType = "PENALTY")

wicketToBowlerOf(d) ==
    d.wicket.present /\ d.wicket.kind # Null /\ ToUpperCase(d.wicket.kind) # "RUN_OUT"

\* the columns written to the bowler's existing bowling entry
\* variant: every delivery of a bowler with an entry counts as a ball
bowlingUpdateData_CountsEveryBall(existingBowl, cfg, d) ==
    [balls |-> existingBowl.balls + 1,
     overs |-> (existingBowl.balls + 1) \div cfg.ballsPerOver,
     runsConceded |-> existingBowl.runsConceded
                      + (IF concedeToBowlerOf(d) THEN runsToAddOf(d) ELSE 0),
     wickets |-> existingBowl.wickets + (IF wicketToBowlerOf(d) THEN 1 ELSE 0)]

bowlingUpdateData(existingBowl, cfg, d) ==
    LET addBall == d.ballType = "NORMAL" \/ d.ballType = "FREE_HIT"
                   \/ d.ballType = "BYE" \/ d.ballType = "LEG_BYE"
    IN  [balls |-> existingBowl.balls + (IF addBall THEN 1 ELSE 0),
         overs |-> (existingBowl.balls + (IF addBall THEN 1 ELSE 0)) \div cfg.ballsPerOver,
         runsConceded |-> existingBowl.runsConceded
                          + (IF concedeToBowlerOf(d) THEN runsToAddOf(d) ELSE 0),
         wickets |-> existingBowl.wickets + (IF wicketToBowlerOf(d) THEN 1 ELSE 0)]

\* variant: the first delivery of a bowler counts as a ball whatever its type
bowlingCreateData_CountsEveryBall(inningId, bowlerId, cfg, d) ==
    [inningId |-> inningId,
     playerId |-> bowlerId,
     balls |-> 1,
     overs |-> 1 \div cfg.ballsPerOver,
     runsConceded |-> IF concedeToBowlerOf(d) THEN runsToAddOf(d) ELSE 0,
     maidens |-> 0,
     wickets |-> IF wicketToBowlerOf(d) THEN 1 ELSE 0]

\* the bowling entry created for a bowler without one
bowlingCreateData(inningId, bowlerId, cfg, d) ==
    LET addBall == d.ballType = "NORMAL" \/ d.ballType = "FREE_HIT"
                   \/ d.ballType = "BYE" \/ d.ballType = "LEG_BYE"
    IN  [inningId |-> inningId,
         playerId |-> bowlerId,
         balls |-> IF addBall THEN 1 ELSE 0,
         overs |-> IF addBall THEN 1 \div cfg.ballsPerOver ELSE 0,
         runsConceded |-> IF concedeToBowlerOf(d) THEN runsToAddOf(d) ELSE 0,
         maidens |-> 0,
         wickets |-> IF wicketToBowlerOf(d) THEN 1 ELSE 0]

\* bowling entry of the current bowler: update the existing row or create one
upsertBowling(table, inningId, inn, cfg, d) ==
    LET existingBowl == findEntry(table, inningId, inn.currentBowlerId)
    IN  IF existingBowl # 0
        THEN [table EXCEPT ![existingBowl] = Merge(@, bowlingUpdateData(@, cfg, d))]
        ELSE Append(table, bowlingCreateData(inningId, inn.currentBowlerId, cfg, d))

\* ------------------------------------------------------------------------
\* Requests
\* ------------------------------------------------------------------------
\* the deliveries a scorer sends in the exploration: a dot ball, a single, the
\* striker bowled, the non-striker run out, a no-ball with a run-out that names
\* no player
Deliveries(inn) ==
    {[runs |-> 0, ballType |-> "NORMAL", wicket |-> NoWicket, manualStrikeChange |-> FALSE],
     [runs |-> 1, ballType |-> "NORMAL", wicket |-> NoWicket, manualStrikeChange |-> FALSE],
     [runs |-> 0, ballType |-> "NORMAL",
      wicket |-> [present |-> TRUE, kind |-> "BOWLED", playerId |-> inn.strikerId],
      manualStrikeChange |-> FALSE],
     [runs |-> 0, ballType |-> "NORMAL",
      wicket |-> [present |-> TRUE, kind |-> "RUN_OUT", playerId |-> inn.nonStrikerId],
      manualStrikeChange |-> FALSE],
     [runs |-> 0, ballType |-> "NO_BALL",
      wicket |-> [present |-> TRUE, kind |-> "RUN_OUT", playerId |-> Null],
      manualStrikeChange |-> FALSE]}

cfgOf(matchId) == [ballsPerOver |-> matches[matchId].ballsPerOver,
                   oversLimit |-> matches[matchId].oversLimit]

\* the status the record-ball handler answers with, 201 when the ball is accepted
recordBallCode(userId, matchId, inningId) ==
    IF ensureMatchAccess(matchId, userId) # 0 THEN ensureMatchAccess(matchId, userId)
    ELSE IF inningId \notin 1..Len(innings) \/ innings[inningId].matchId # matchId THEN 404
    ELSE IF matches[matchId].status # "LIVE" THEN 400
    ELSE IF selectionPending(innings[inningId]) THEN 409
    ELSE 201

\* variant: a delivery equal to the one accepted last on the inning is refused
RecordBall_RefusesRepeat(userId, matchId, inningId, d) ==
    IF /\ response.op = "recordBall" /\ response.code = 201
       /\ response.matchId = matchId /\ response.inningId = inningId /\ response.d = d
    THEN /\ response' = BallResp(409, FALSE, matchId, inningId, d)
         /\ UNCHANGED <<dbVars, endedInnings, inflight>>
    ELSE
        LET code == recordBallCode(userId, matchId, inningId)
        IN  IF code # 201
            THEN /\ response' = BallResp(code, FALSE, matchId, inningId, d)
                 /\ UNCHANGED <<dbVars, endedInnings, inflight>>
            ELSE LET inn == innings[inningId]
                     cfg == cfgOf(matchId)
                     lb == legalBallsSoFarOf(balls, inningId)
                     ended == inningEndedOf(innings, inningId, matchId, inn, lb, cfg, d)
                 IN  /\ balls' = Append(balls, ballRowOf(inningId, inn, lb, cfg, d))
                     /\ innings' = applyInningUpdate(innings, inningId,
                                                     updateDataOf(inn, lb, cfg, d))
                     /\ battingEntries' = markOut(upsertBatting(battingEntries, inningId, inn, d),
                                                  inningId, d)
                     /\ bowlingEntries' = upsertBowling(bowlingEntries, inningId, inn, cfg, d)
                     /\ response' = BallResp(201, ended, matchId, inningId, d)
                     /\ endedInnings' = IF ended THEN endedInnings \cup {inningId}
                                        ELSE endedInnings
                     /\ UNCHANGED <<matches, players, inflight>>

\* POST /:inningId/balls, run from request to response
RecordBall(userId, matchId, inningId, d) ==
    LET code == recordBallCode(userId, matchId, inningId)
    IN  IF code # 201
        THEN /\ response' = BallResp(code, FALSE, matchId, inningId, d)
             /\ UNCHANGED <<dbVars, endedInnings, inflight>>
        ELSE LET inn == innings[inningId]
                 cfg == cfgOf(matchId)
                 lb == legalBallsSoFarOf(balls, inningId)
                 ended == inningEndedOf(innings, inningId, matchId, inn, lb, cfg, d)
             IN  /\ balls' = Append(balls, ballRowOf(inningId, inn, lb, cfg, d))
                 /\ innings' = applyInningUpdate(innings, inningId,
                                                 updateDataOf(inn, lb, cfg, d))
                 /\ battingEntries' = markOut(upsertBatting(battingEntries, inningId, inn, d),
                                              inningId, d)
                 /\ bowlingEntries' = upsertBowling(bowlingEntries, inningId, inn, cfg, d)
                 /\ response' = BallResp(201, ended, matchId, inningId, d)
                 /\ endedInnings' = IF ended THEN endedInnings \cup {inningId}
                                    ELSE endedInnings
                 /\ UNCHANGED <<matches, players, inflight>>

\* the Inning table keeps inningNumber unique within a match
inningNumberTaken(inningTable, matchId, inningNumber) ==
    \E k \in 1..Len(inningTable) :
        inningTable[k].matchId = matchId /\ inningTable[k].inningNumber = inningNumber

\* the bodies sent to open the next inning: the teams bat in turn; one body
\* lacks the striker
StartBodies ==
    LET bt == IF Len(innings) % 2 = 0 THEN "tA" ELSE "tB"
        wt == IF Len(innings) % 2 = 0 THEN "tB" ELSE "tA"
    IN  [inningNumber : {Len(innings) + 1},
         battingTeamId : {bt}, bowlingTeamId : {wt},
         strikerId : {Opener(bt), Null},
         nonStrikerId : {SecondOpener(bt)},
         bowlerId : {Opener(wt)}]

\* variant: the teams are not compared with the teams of the match
startInningCode_AnyTeams(userId, matchId, body) ==
    IF ensureMatchAccess(matchId, userId) # 0 THEN ensureMatchAccess(matchId, userId)
    ELSE IF matches[matchId].status # "LIVE" THEN 400
    ELSE IF body.inningNumber = 0 \/ body.battingTeamId = Null \/ body.bowlingTeamId = Null
            \/ body.strikerId = Null \/ body.nonStrikerId = Null \/ body.bowlerId = Null
         THEN 400
    ELSE IF body.battingTeamId = body.bowlingTeamId THEN 400
    ELSE IF inningNumberTaken(innings, matchId, body.inningNumber) THEN 500
    ELSE 201

startInningCode(userId, matchId, body) ==
    IF ensureMatchAccess(matchId, userId) # 0 THEN ensureMatchAccess(matchId, userId)
    ELSE IF matches[matchId].status # "LIVE" THEN 400
    ELSE IF body.inningNumber = 0 \/ body.battingTeamId = Null \/ body.bowlingTeamId = Null
            \/ body.strikerId = Null \/ body.nonStrikerId = Null \/ body.bowlerId = Null
         THEN 400
    ELSE IF body.battingTeamId = body.bowlingTeamId THEN 400
    ELSE IF body.battingTeamId \notin {matches[matchId].teamAId, matches[matchId].teamBId}
            \/ body.bowlingTeamId \notin {matches[matchId].teamAId, matches[matchId].teamBId}
         THEN 400
    ELSE IF inningNumberTaken(innings, matchId, body.inningNumber) THEN 500
    ELSE 201

\* POST / : start an inning
StartInning(userId, matchId, body) ==
    LET code == startInningCode(userId, matchId, body)
    IN  /\ response' = Resp("startInning", code)
        /\ UNCHANGED <<matches, balls, battingEntries, bowlingEntries, players, endedInnings, inflight>>
        /\ IF code # 201
           THEN UNCHANGED innings
           ELSE innings' = Append(innings,
                       [matchId |-> matchId,
                        inningNumber |-> body.inningNumber,
                        battingTeamId |-> body.battingTeamId,
                        bowlingTeamId |-> body.bowlingTeamId,
                        strikerId |-> body.strikerId,
                        nonStrikerId |-> body.nonStrikerId,
                        currentBowlerId |-> body.bowlerId,
                        runs |-> 0, wickets |-> 0, overs |-> 0])

inningFound(matchId, inningId) ==
    inningId \in 1..Len(innings) /\ innings[inningId].matchId = matchId

\* variant: the end is recorded by emptying the bowler slot of the inning
EndInning_ClearsBowler(userId, matchId, inningId) ==
    LET access == ensureMatchAccess(matchId, userId)
        code == IF access # 0 THEN access
                ELSE IF ~inningFound(matchId, inningId) THEN 404
                ELSE 200
    IN  /\ response' = Resp("endInning", code)
        /\ innings' = IF code = 200
                      THEN [innings EXCEPT ![inningId].currentBowlerId = Null]
                      ELSE innings
        /\ UNCHANGED <<matches, balls, battingEntries, bowlingEntries, players,
                       endedInnings, inflight>>

\* POST /:inningId/end : end the inning manually
EndInning(userId, matchId, inningId) ==
    LET access == ensureMatchAccess(matchId, userId)
        code == IF access # 0 THEN access
                ELSE IF ~inningFound(matchId, inningId) THEN 404
                ELSE 200
    IN  /\ response' = Resp("endInning", code)
        /\ UNCHANGED <<dbVars, endedInnings, inflight>>

selectBatsmanCode(userId, matchId, inningId, strikerId) ==
    IF ensureMatchAccess(matchId, userId) # 0 THEN ensureMatchAccess(matchId, userId)
    ELSE IF strikerId = Null THEN 400
    ELSE IF ~inningFound(matchId, inningId) THEN 404
    ELSE 200

\* variant: the chosen player goes to the non-striker slot
SelectBatsman_FillsNonStriker(userId, matchId, inningId, strikerId) ==
    LET code == selectBatsmanCode(userId, matchId, inningId, strikerId)
    IN  /\ response' = SelectResp("selectBatsman", code, matchId, inningId, strikerId)
        /\ UNCHANGED <<matches, balls, battingEntries, bowlingEntries, players, endedInnings, inflight>>
        /\ IF code # 200
           THEN UNCHANGED innings
           ELSE innings' = applyInningUpdate(innings, inningId, [nonStrikerId |-> strikerId])

\* POST /:inningId/select-batsman
SelectBatsman(userId, matchId, inningId, strikerId) ==
    LET code == selectBatsmanCode(userId, matchId, inningId, strikerId)
    IN  /\ response' = SelectResp("selectBatsman", code, matchId, inningId, strikerId)
        /\ UNCHANGED <<matches, balls, battingEntries, bowlingEntries, players, endedInnings, inflight>>
        /\ IF code # 200
           THEN UNCHANGED innings
           ELSE innings' = applyInningUpdate(innings, inningId, [strikerId |-> strikerId])

\* variant: the consecutive-overs test never fires
bowledPreviousOver_Never(ballTable, inningId, ballsPerOver, bowlerId) == FALSE

\* the bowler of the last ball created in the over before the current one
bowledPreviousOver(ballTable, inningId, ballsPerOver, bowlerId) ==
    LET legalBallsSoFar == legalBallsSoFarOf(ballTable, inningId)
        prevOverNumber == legalBallsSoFar \div ballsPerOver
        prevOverBalls == {k \in 1..Len(ballTable) :
                             /\ ballTable[k].inningId = inningId
                             /\ ballTable[k].overNumber = prevOverNumber}
    IN  /\ legalBallsSoFar > 0
        /\ prevOverNumber > 0
        /\ prevOverBalls # {}
        /\ ballTable[SetMax(prevOverBalls)].bowlerId = bowlerId

\* variant: the over-break test is skipped
selectBowlerCode_NoOverBreakCheck(userId, matchId, inningId, bowlerId) ==
    IF bowlerId = Null THEN 400
    ELSE IF ensureMatchAccess(matchId, userId) # 0 THEN ensureMatchAccess(matchId, userId)
    ELSE IF ~inningFound(matchId, inningId) THEN 404
    ELSE IF matches[matchId].status # "LIVE" THEN 400
    ELSE IF bowlerId \notin Roster(innings[inningId].bowlingTeamId) THEN 400
    ELSE IF bowledPreviousOver(balls, inningId, matches[matchId].ballsPerOver, bowlerId)
         THEN 400
    ELSE 200

selectBowlerCode(userId, matchId, inningId, bowlerId) ==
    IF bowlerId = Null THEN 400
    ELSE IF ensureMatchAccess(matchId, userId) # 0 THEN ensureMatchAccess(matchId, userId)
    ELSE IF ~inningFound(matchId, inningId) THEN 404
    ELSE IF matches[matchId].status # "LIVE" THEN 400
    ELSE IF innings[inningId].currentBowlerId # Null THEN 400
    ELSE IF bowlerId \notin Roster(innings[inningId].bowlingTeamId) THEN 400
    ELSE IF bowledPreviousOver(balls, inningId, matches[matchId].ballsPerOver, bowlerId)
         THEN 400
    ELSE 200

\* POST /:inningId/select-bowler
SelectBowler(userId, matchId, inningId, bowlerId) ==
    LET code == selectBowlerCode(userId, matchId, inningId, bowlerId)
    IN  /\ response' = SelectResp("selectBowler", code, matchId, inningId, bowlerId)
        /\ UNCHANGED <<matches, balls, battingEntries, bowlingEntries, players, endedInnings, inflight>>
        /\ IF code # 200
           THEN UNCHANGED innings
           ELSE innings' = applyInningUpdate(innings, inningId,
                                             [currentBowlerId |-> bowlerId])

\* ------------------------------------------------------------------------
\* buildMatchState
\* ------------------------------------------------------------------------
\* variant: the balls of the over are not reduced modulo ballsPerOver
buildMatchState_BallsNotReduced(inningTable, ballTable, inningId) ==
    LET inning == inningTable[inningId]
        legalBalls == legalBallsSoFarOf(ballTable, inningId)
        oversCompleted == legalBalls \div matches[inning.matchId].ballsPerOver
    IN  [strikerId |-> inning.strikerId,
         nonStrikerId |-> inning.nonStrikerId,
         bowlerId |-> inning.currentBowlerId,
         runs |-> inning.runs,
         wickets |-> inning.wickets,
         overs |-> ToString(oversCompleted) \o "." \o ToString(legalBalls),
         needNewBatsman |-> inning.strikerId = Null \/ inning.nonStrikerId = Null,
         needNewBowler |-> inning.currentBowlerId = Null]

\* the state object built for an inning that exists
buildMatchState(inningTable, ballTable, inningId) ==
    LET inning == inningTable[inningId]
        legalBalls == legalBallsSoFarOf(ballTable, inningId)
        oversCompleted == legalBalls \div matches[inning.matchId].ballsPerOver
        ballsIntoOver == legalBalls % matches[inning.matchId].ballsPerOver
    IN  [strikerId |-> inning.strikerId,
         nonStrikerId |-> inning.nonStrikerId,
         bowlerId |-> inning.currentBowlerId,
         runs |-> inning.runs,
         wickets |-> inning.wickets,
         overs |-> ToString(oversCompleted) \o "." \o ToString(ballsIntoOver),
         needNewBatsman |-> inning.strikerId = Null \/ inning.nonStrikerId = Null,
         needNewBowler |-> inning.currentBowlerId = Null]

\* ------------------------------------------------------------------------
\* Chase view of GET /live and GET /match-status
\* ------------------------------------------------------------------------
\* the inning listed last when the innings of the match are ordered by
\* inningNumber
currentInningOf(inningTable, matchId) ==
    LET ids == {k \in 1..Len(inningTable) : inningTable[k].matchId = matchId}
    IN  CHOOSE k \in ids :
            \A j \in ids : inningTable[j].inningNumber <= inningTable[k].inningNumber

\* variant: the target is the highest earlier total itself
chaseOf_TargetIsMax(inningTable, ballTable, matchId) ==
    LET ids == {k \in 1..Len(inningTable) : inningTable[k].matchId = matchId}
        current == currentInningOf(inningTable, matchId)
        prevMax == SetMax({inningTable[j].runs : j \in ids \ {current}})
        target == prevMax
        legalBalls == legalBallsSoFarOf(ballTable, current)
        ballsLimit == matches[matchId].oversLimit * matches[matchId].ballsPerOver
    IN  IF Cardinality(ids) > 1
        THEN [present |-> TRUE,
              target |-> target,
              needed |-> Max(0, target - inningTable[current].runs),
              ballsLeft |-> Max(0, ballsLimit - legalBalls),
              wicketsLeft |-> Max(0, 10 - inningTable[current].wickets)]
        ELSE [present |-> FALSE]

\* the chase object of the view, absent with fewer than two innings; the run
\* rates are left out
chaseOf(inningTable, ballTable, matchId) ==
    LET ids == {k \in 1..Len(inningTable) : inningTable[k].matchId = matchId}
        current == currentInningOf(inningTable, matchId)
        prevMax == SetMax({inningTable[j].runs : j \in ids \ {current}})
        target == prevMax + 1
        legalBalls == legalBallsSoFarOf(ballTable, current)
        ballsLimit == matches[matchId].oversLimit * matches[matchId].ballsPerOver
    IN  IF Cardinality(ids) > 1
        THEN [present |-> TRUE,
              target |-> target,
              needed |-> Max(0, target - inningTable[current].runs),
              ballsLeft |-> Max(0, ballsLimit - legalBalls),
              wicketsLeft |-> Max(0, 10 - inningTable[current].wickets)]
        ELSE [present |-> FALSE]

\* ------------------------------------------------------------------------
\* Match lifecycle (src/src/match.js)
\* ------------------------------------------------------------------------
\* POST /:matchId/start
\* variant: the status of the match is not looked at
StartMatch_FromAnyStatus(userId, matchId) ==
    LET code == IF Organiser(matchId) # Null /\ Organiser(matchId) # userId THEN 403
                ELSE 200
    IN  /\ response' = Resp("startMatch", code)
        /\ UNCHANGED <<innings, balls, battingEntries, bowlingEntries, players, endedInnings, inflight>>
        /\ IF code # 200
           THEN UNCHANGED matches
           ELSE matches' = [matches EXCEPT ![matchId].status = "LIVE"]

\* POST /:matchId/start
StartMatch(userId, matchId) ==
    LET code == IF Organiser(matchId) # Null /\ Organiser(matchId) # userId THEN 403
                ELSE IF matches[matchId].status # "SCHEDULED" THEN 400
                ELSE 200
    IN  /\ response' = Resp("startMatch", code)
        /\ UNCHANGED <<innings, balls, battingEntries, bowlingEntries, players, endedInnings, inflight>>
        /\ IF code # 200
           THEN UNCHANGED matches
           ELSE matches' = [matches EXCEPT ![matchId].status = "LIVE"]

RECURSIVE SumField(_, _, _, _)
\* sum of a column over the rows of the given innings that belong to the player
SumField(table, inningIds, playerId, field) ==
    IF table = <<>> THEN 0
    ELSE (IF Head(table).inningId \in inningIds /\ Head(table).playerId = playerId
          THEN Head(table)[field] ELSE 0)
         + SumField(Tail(table), inningIds, playerId, field)

inningIdsOf(matchId) == {k \in 1..Len(innings) : innings[k].matchId = matchId}

\* the last inning of the match in inningNumber order
secondInningOf(matchId) ==
    CHOOSE k \in inningIdsOf(matchId) :
        \A j \in inningIdsOf(matchId) : innings[j].inningNumber <= innings[k].inningNumber

\* the inning before the last one in inningNumber order
firstInningOf(matchId) ==
    CHOOSE k \in inningIdsOf(matchId) \ {secondInningOf(matchId)} :
        \A j \in inningIdsOf(matchId) \ {secondInningOf(matchId)} :
            innings[j].inningNumber <= innings[k].inningNumber

secondInningInProgress(matchId) ==
    LET firstInning == innings[firstInningOf(matchId)]
        secondInning == innings[secondInningOf(matchId)]
        ballsPerOver == matches[matchId].ballsPerOver
        oversLimit == matches[matchId].oversLimit
        legalBallsSecond == legalBallsSoFarOf(balls, secondInningOf(matchId))
        target == firstInning.runs + 1
        chaseAchieved == secondInning.runs >= target
        allBallsUsed == IF oversLimit > 0
                        THEN legalBallsSecond >= oversLimit * ballsPerOver
                        ELSE FALSE
        wicketsAllOut == secondInning.wickets >= 10
        scoresLevel == secondInning.runs = firstInning.runs
    IN  \/ (~chaseAchieved /\ ~wicketsAllOut /\ ~allBallsUsed)
        \/ (scoresLevel /\ ~wicketsAllOut /\ ~allBallsUsed)

endMatchCode(userId, matchId) ==
    IF Organiser(matchId) # Null /\ Organiser(matchId) # userId THEN 403
    ELSE IF matches[matchId].status \notin {"SCHEDULED", "LIVE"} THEN 400
    ELSE IF Cardinality(inningIdsOf(matchId)) < 2 THEN 400
    ELSE IF secondInningInProgress(matchId) THEN 400
    ELSE 200

\* winner, margin and result text of the last two innings
matchResultOf(matchId) ==
    LET firstInning == innings[firstInningOf(matchId)]
        secondInning == innings[secondInningOf(matchId)]
    IN  IF secondInning.runs > firstInning.runs
        THEN [winningTeamId |-> secondInning.battingTeamId,
              winningMargin |-> <<Max(1, Max(0, 10 - secondInning.wickets)), "wicket">>,
              result |-> <<secondInning.battingTeamId, "won by",
                           Max(1, Max(0, 10 - secondInning.wickets)), "wicket">>]
        ELSE IF secondInning.runs < firstInning.runs
        THEN [winningTeamId |-> firstInning.battingTeamId,
              winningMargin |-> <<firstInning.runs - secondInning.runs, "run">>,
              result |-> <<firstInning.battingTeamId, "won by",
                           firstInning.runs - secondInning.runs, "run">>]
        ELSE [winningTeamId |-> Null,
              winningMargin |-> <<"Tie">>,
              result |-> <<"Match tied">>]

\* lifetime totals after the match's batting runs and bowling wickets are added
appliedTotals(matchId) ==
    [p \in AllPlayers |->
        [totalRuns |-> players[p].totalRuns
                       + SumField(battingEntries, inningIdsOf(matchId), p, "runs"),
         totalWickets |-> players[p].totalWickets
                       + SumField(bowlingEntries, inningIdsOf(matchId), p, "wickets")]]

\* POST /:matchId/end
EndMatch(userId, matchId) ==
    LET code == endMatchCode(userId, matchId)
    IN  /\ response' = Resp("endMatch", code)
        /\ UNCHANGED <<innings, balls, battingEntries, bowlingEntries, endedInnings, inflight>>
        /\ IF code # 200
           THEN UNCHANGED <<matches, players>>
           ELSE /\ players' = IF ~matches[matchId].statsApplied
                              THEN appliedTotals(matchId)
                              ELSE players
                /\ matches' = [matches EXCEPT ![matchId] =
                                  Merge(@, Merge(matchResultOf(matchId),
                                                 [status |-> "COMPLETED",
                                                  statsApplied |-> TRUE]))]

\* ------------------------------------------------------------------------
\* Specification: requests handled one at a time
\* ------------------------------------------------------------------------
\* the tables before any request, the matches configured as cfg
InitCfg(cfg) ==
    /\ matches = [m \in Matches |->
                      [status |-> "SCHEDULED", statsApplied |-> FALSE,
                       teamAId |-> "tA", teamBId |-> "tB",
                       ballsPerOver |-> cfg.ballsPerOver, oversLimit |-> cfg.oversLimit,
                       winningTeamId |-> Null, winningMargin |-> <<>>, result |-> <<>>]]
    /\ innings = <<>>
    /\ balls = <<>>
    /\ battingEntries = <<>>
    /\ bowlingEntries = <<>>
    /\ players = [p \in AllPlayers |-> [totalRuns |-> 0, totalWickets |-> 0]]
    /\ response = Resp("none", 0)
    /\ endedInnings = {}
    /\ inflight = [r \in Slots |-> Idle]

Init == InitCfg([ballsPerOver |-> 2, oversLimit |-> 1])

\* the scorer works on the inning opened last
LatestInning == {Len(innings)} \ {0}

DoStartMatch == \E m \in PlayedMatches : StartMatch("org", m)
DoEndMatch == \E m \in PlayedMatches : EndMatch("org", m)
\* the next inning is opened once the inning before has a ball
DoStartInning ==
    \E m \in PlayedMatches, body \in StartBodies :
        /\ startInningCode("scorer", m, body) = 201 =>
              /\ Len(innings) < MaxInnings
              /\ \A i \in LatestInning : \E k \in 1..Len(balls) : balls[k].inningId = i
        /\ StartInning("scorer", m, body)
DoEndInning == \E m \in PlayedMatches, i \in LatestInning : EndInning("scorer", m, i)
\* a batter is sent in while a batting slot is empty
DoSelectBatsman ==
    \E m \in PlayedMatches, i \in LatestInning :
        /\ innings[i].strikerId = Null \/ innings[i].nonStrikerId = Null
        /\ \E p \in Roster(innings[i].battingTeamId) : SelectBatsman("scorer", m, i, p)
DoSelectBowler ==
    \E m \in PlayedMatches, i \in LatestInning :
        \E p \in Roster(innings[i].bowlingTeamId) \cup {Opener(innings[i].battingTeamId)} :
            SelectBowler("scorer", m, i, p)
\* a request refused before the delivery is looked at is sent once
DoRecordBall ==
    \E m \in Matches, i \in LatestInning :
        IF recordBallCode("scorer", m, i) # 201
        THEN RecordBall("scorer", m, i, AnyDelivery)
        ELSE /\ Len(balls) < MaxBalls
             /\ \E d \in Deliveries(innings[i]) : RecordBall("scorer", m, i, d)

Next ==
    \/ DoStartMatch
    \/ DoEndMatch
    \/ DoStartInning
    \/ DoEndInning
    \/ DoSelectBatsman
    \/ DoSelectBowler
    \/ DoRecordBall

Spec == Init /\ [][Next]_vars

\* ------------------------------------------------------------------------
\* POST /:inningId/balls one database call at a time
\* ------------------------------------------------------------------------
\* ball rows the interleaved exploration may create
MaxStepBalls == 2

Active == {r \in Slots : inflight[r].pc # "idle"}

StepDeliveries(inn) ==
    {[runs |-> 1, ballType |-> "NORMAL", wicket |-> NoWicket, manualStrikeChange |-> FALSE],
     [runs |-> 0, ballType |-> "NORMAL",
      wicket |-> [present |-> TRUE, kind |-> "BOWLED", playerId |-> inn.strikerId],
      manualStrikeChange |-> FALSE],
     [runs |-> 0, ballType |-> "WIDE",
      wicket |-> [present |-> TRUE, kind |-> "RUN_OUT", playerId |-> Null],
      manualStrikeChange |-> FALSE]}

Goto(r, pc) == inflight' = [inflight EXCEPT ![r].pc = pc]

\* the reads up to the selection check: refuse, or keep what was read
BeginRecordBall(r, userId, matchId, inningId, d) ==
    /\ inflight[r].pc = "idle"
    /\ LET code == recordBallCode(userId, matchId, inningId)
       IN  IF code # 201
           THEN /\ response' = BallResp(code, FALSE, matchId, inningId, d)
                /\ UNCHANGED <<dbVars, endedInnings, inflight>>
           ELSE /\ inflight' = [inflight EXCEPT ![r] =
                       [Idle EXCEPT !.pc = "createBall",
                                    !.matchId = matchId,
                                    !.inningId = inningId,
                                    !.d = d,
                                    !.inn = innings[inningId],
                                    !.lb = legalBallsSoFarOf(balls, inningId)]]
                /\ UNCHANGED <<dbVars, response, endedInnings>>

\* prisma.ball.create
CreateBall(r) ==
    LET q == inflight[r]
    IN  /\ q.pc = "createBall"
        /\ balls' = Append(balls, ballRowOf(q.inningId, q.inn, q.lb, cfgOf(q.matchId), q.d))
        /\ inflight' = [inflight EXCEPT ![r] =
               [q EXCEPT !.ended = endedByLimits(q.inn, q.lb, cfgOf(q.matchId), q.d),
                         !.pc = IF endedByLimits(q.inn, q.lb, cfgOf(q.matchId), q.d)
                                THEN "updateInning" ELSE "readTarget"]]
        /\ UNCHANGED <<matches, innings, battingEntries, bowlingEntries, players,
                       response, endedInnings>>

\* the reads of the target check, then the roster check
ReadTarget(r) ==
    LET q == inflight[r]
        achieved == targetAchieved(innings, q.inningId, q.matchId,
                                   newTotalsOf(q.inn, q.d).runs)
        allOut == ~achieved /\ endedByRoster(q.inn, q.d)
    IN  /\ q.pc = "readTarget"
        /\ inflight' = [inflight EXCEPT ![r] =
               [q EXCEPT !.ended = achieved \/ allOut,
                         !.pc = IF allOut THEN "updateInningAllOut" ELSE "updateInning"]]
        /\ UNCHANGED <<dbVars, response, endedInnings>>

\* prisma.inning.update inside the roster check
UpdateInningAllOut(r) ==
    LET q == inflight[r]
    IN  /\ q.pc = "updateInningAllOut"
        /\ innings' = applyInningUpdate(innings, q.inningId,
                                        updateDataOf(q.inn, q.lb, cfgOf(q.matchId), q.d))
        /\ Goto(r, "updateInning")
        /\ UNCHANGED <<matches, balls, battingEntries, bowlingEntries, players,
                       response, endedInnings>>

\* prisma.inning.update
UpdateInning(r) ==
    LET q == inflight[r]
    IN  /\ q.pc = "updateInning"
        /\ innings' = applyInningUpdate(innings, q.inningId,
                                        updateDataOf(q.inn, q.lb, cfgOf(q.matchId), q.d))
        /\ Goto(r, "findBat")
        /\ UNCHANGED <<matches, balls, battingEntries, bowlingEntries, players,
                       response, endedInnings>>

\* prisma.battingEntry.findFirst for the striker
FindBat(r) ==
    LET q == inflight[r]
        existingBat == findEntry(battingEntries, q.inningId, q.inn.strikerId)
    IN  /\ q.pc = "findBat"
        /\ inflight' = [inflight EXCEPT ![r] =
               IF existingBat # 0
               THEN [q EXCEPT !.found = existingBat, !.row = battingEntries[existingBat],
                              !.pc = "updateBat"]
               ELSE [q EXCEPT !.found = 0, !.pc = "findLastOrder"]]
        /\ UNCHANGED <<dbVars, response, endedInnings>>

\* prisma.battingEntry.findFirst for the last batting order
FindLastOrder(r) ==
    LET q == inflight[r]
    IN  /\ q.pc = "findLastOrder"
        /\ inflight' = [inflight EXCEPT ![r] =
               [q EXCEPT !.lastOrder = lastOrderOf(battingEntries, q.inningId),
                         !.pc = "createBat"]]
        /\ UNCHANGED <<dbVars, response, endedInnings>>

afterBat(d) == IF d.wicket.present /\ d.wicket.playerId # Null THEN "findOut" ELSE "findBowl"

\* prisma.battingEntry.update
UpdateBat(r) ==
    LET q == inflight[r]
    IN  /\ q.pc = "updateBat"
        /\ battingEntries' = [battingEntries EXCEPT ![q.found] =
                                 Merge(@, battingUpdateData(q.row, q.d))]
        /\ inflight' = [inflight EXCEPT ![r] = [q EXCEPT !.row = <<>>, !.pc = afterBat(q.d)]]
        /\ UNCHANGED <<matches, innings, balls, bowlingEntries, players,
                       response, endedInnings>>

\* prisma.battingEntry.create
CreateBat(r) ==
    LET q == inflight[r]
    IN  /\ q.pc = "createBat"
        /\ battingEntries' = Append(battingEntries,
               battingCreateData(q.inningId, q.inn.strikerId, q.lastOrder, q.d))
        /\ inflight' = [inflight EXCEPT ![r] =
               [q EXCEPT !.lastOrder = 0, !.pc = afterBat(q.d)]]
        /\ UNCHANGED <<matches, innings, balls, bowlingEntries, players,
                       response, endedInnings>>

\* prisma.battingEntry.findFirst for the dismissed player
FindOut(r) ==
    LET q == inflight[r]
        be == findEntry(battingEntries, q.inningId, q.d.wicket.playerId)
    IN  /\ q.pc = "findOut"
        /\ inflight' = [inflight EXCEPT ![r] =
               [q EXCEPT !.found = be, !.pc = IF be # 0 THEN "markOut" ELSE "findBowl"]]
        /\ UNCHANGED <<dbVars, response, endedInnings>>

\* prisma.battingEntry.update of out and dismissal
MarkOut(r) ==
    LET q == inflight[r]
    IN  /\ q.pc = "markOut"
        /\ battingEntries' = [battingEntries EXCEPT ![q.found] = Merge(@, markOutData(q.d))]
        /\ Goto(r, "findBowl")
        /\ UNCHANGED <<matches, innings, balls, bowlingEntries, players,
                       response, endedInnings>>

\* prisma.bowlingEntry.findFirst for the bowler
FindBowl(r) ==
    LET q == inflight[r]
        existingBowl == findEntry(bowlingEntries, q.inningId, q.inn.currentBowlerId)
    IN  /\ q.pc = "findBowl"
        /\ inflight' = [inflight EXCEPT ![r] =
               IF existingBowl # 0
               THEN [q EXCEPT !.found = existingBowl, !.row = bowlingEntries[existingBowl],
                              !.pc = "updateBowl"]
               ELSE [q EXCEPT !.found = 0, !.pc = "createBowl"]]
        /\ UNCHANGED <<dbVars, response, endedInnings>>

\* the 201 response that follows the bowling entry write
Respond(r) ==
    LET q == inflight[r]
    IN  /\ response' = BallResp(201, q.ended, q.matchId, q.inningId, q.d)
        /\ endedInnings' = IF q.ended THEN endedInnings \cup {q.inningId} ELSE endedInnings
        /\ inflight' = [inflight EXCEPT ![r] = Idle]

\* prisma.bowlingEntry.update, then the response
UpdateBowl(r) ==
    LET q == inflight[r]
    IN  /\ q.pc = "updateBowl"
        /\ bowlingEntries' = [bowlingEntries EXCEPT ![q.found] =
                                 Merge(@, bowlingUpdateData(q.row, cfgOf(q.matchId), q.d))]
        /\ Respond(r)
        /\ UNCHANGED <<matches, innings, balls, battingEntries, players>>

\* prisma.bowlingEntry.create, then the response
CreateBowl(r) ==
    LET q == inflight[r]
    IN  /\ q.pc = "createBowl"
        /\ bowlingEntries' = Append(bowlingEntries,
               bowlingCreateData(q.inningId, q.inn.currentBowlerId, cfgOf(q.matchId), q.d))
        /\ Respond(r)
        /\ UNCHANGED <<matches, innings, balls, battingEntries, players>>

\* a database call throws: the catch block answers 500, earlier writes stay
PersistenceFailure(r) ==
    /\ inflight[r].pc # "idle"
    /\ response' = BallResp(500, FALSE, inflight[r].matchId, inflight[r].inningId,
                             inflight[r].d)
    /\ inflight' = [inflight EXCEPT ![r] = Idle]
    /\ UNCHANGED <<dbVars, endedInnings>>

DoBeginConcurrent ==
    \E r \in Slots, m \in PlayedMatches, i \in LatestInning :
        IF recordBallCode("scorer", m, i) # 201
        THEN BeginRecordBall(r, "scorer", m, i, AnyDelivery)
        ELSE /\ Len(balls) + Cardinality(Active) < MaxStepBalls
             /\ \E d \in StepDeliveries(innings[i]) : BeginRecordBall(r, "scorer", m, i, d)

\* the next request is sent when the one before has been answered
DoBeginSingle ==
    \E m \in PlayedMatches, i \in LatestInning :
        /\ Active = {}
        /\ IF recordBallCode("scorer", m, i) # 201
           THEN BeginRecordBall(1, "scorer", m, i, AnyDelivery)
           ELSE /\ Len(balls) < MaxStepBalls
                /\ \E d \in StepDeliveries(innings[i]) :
                      BeginRecordBall(1, "scorer", m, i, d)

\* one inning is opened in the interleaved exploration
DoStartFirstInning ==
    \E m \in PlayedMatches, body \in StartBodies :
        /\ startInningCode("scorer", m, body) = 201 => Len(innings) < 1
        /\ StartInning("scorer", m, body)

DoCreateBall == \E r \in Slots : CreateBall(r)
DoReadTarget == \E r \in Slots : ReadTarget(r)
DoUpdateInningAllOut == \E r \in Slots : UpdateInningAllOut(r)
DoUpdateInning == \E r \in Slots : UpdateInning(r)
DoFindBat == \E r \in Slots : FindBat(r)
DoFindLastOrder == \E r \in Slots : FindLastOrder(r)
DoUpdateBat == \E r \in Slots : UpdateBat(r)
DoCreateBat == \E r \in Slots : CreateBat(r)
DoFindOut == \E r \in Slots : FindOut(r)
DoMarkOut == \E r \in Slots : MarkOut(r)
DoFindBowl == \E r \in Slots : FindBowl(r)
DoUpdateBowl == \E r \in Slots : UpdateBowl(r)
DoCreateBowl == \E r \in Slots : CreateBowl(r)
DoPersistenceFailure == \E r \in Slots : PersistenceFailure(r)

StepsNext ==
    \/ DoCreateBall
    \/ DoReadTarget
    \/ DoUpdateInningAllOut
    \/ DoUpdateInning
    \/ DoFindBat
    \/ DoFindLastOrder
    \/ DoUpdateBat
    \/ DoCreateBat
    \/ DoFindOut
    \/ DoMarkOut
    \/ DoFindBowl
    \/ DoUpdateBowl
    \/ DoCreateBowl

\* record-ball requests interleaved at their database calls, none of which fails
NextConcurrent ==
    \/ DoStartMatch
    \/ DoStartFirstInning
    \/ DoSelectBatsman
    \/ DoBeginConcurrent
    \/ StepsNext

SpecConcurrent == Init /\ [][NextConcurrent]_vars

\* one record-ball request at a time, any of whose database calls may fail
NextFailure ==
    \/ DoStartMatch
    \/ DoStartFirstInning
    \/ DoSelectBatsman
    \/ DoBeginSingle
    \/ StepsNext
    \/ DoPersistenceFailure

SpecFailure == Init /\ [][NextFailure]_vars

\* ------------------------------------------------------------------------
\* Specification: one inning scored with every ball type
\* ------------------------------------------------------------------------
\* ball rows the exploration of ball types may create
MaxTypedBalls == 2

DoRecordTypedBall ==
    \E m \in PlayedMatches, i \in LatestInning :
        IF recordBallCode("scorer", m, i) # 201
        THEN RecordBall("scorer", m, i, AnyDelivery)
        ELSE /\ Len(balls) < MaxTypedBalls
             /\ \E d \in
                    ([runs : RunsValues, ballType : BallTypes, wicket : {NoWicket},
                      manualStrikeChange : BOOLEAN]
                     \cup [runs : RunsValues, ballType : {"NORMAL"},
                           wicket : {[present |-> TRUE, kind |-> "BOWLED", playerId |-> Null]},
                           manualStrikeChange : {FALSE}]) :
                  RecordBall("scorer", m, i, d)

NextTypes ==
    \/ DoStartMatch
    \/ DoStartFirstInning
    \/ DoSelectBowler
    \/ DoRecordTypedBall

SpecTypes == Init /\ [][NextTypes]_vars

\* ------------------------------------------------------------------------
\* Specification: one inning of two overs, the bowler changed at the break
\* ------------------------------------------------------------------------
\* ball rows the exploration of overs may create
MaxOverBalls == 4

DoRecordOverBall ==
    \E m \in PlayedMatches, i \in LatestInning :
        IF recordBallCode("scorer", m, i) # 201
        THEN RecordBall("scorer", m, i, AnyDelivery)
        ELSE /\ Len(balls) < MaxOverBalls
             /\ \E d \in
                    ([runs : RunsValues, ballType : {"NORMAL", "WIDE"}, wicket : {NoWicket},
                      manualStrikeChange : {FALSE}]) :
                  RecordBall("scorer", m, i, d)

NextOvers ==
    \/ DoStartMatch
    \/ DoStartFirstInning
    \/ DoSelectBowler
    \/ DoRecordOverBall

SpecOvers == InitCfg([ballsPerOver |-> 2, oversLimit |-> 2]) /\ [][NextOvers]_vars

\* ------------------------------------------------------------------------
\* Specification: one inning scored while users without access send requests
\* ------------------------------------------------------------------------
\* ball rows the exploration of access may create
MaxAccessBalls == 2

\* the users who are neither the organiser nor hold a scoring role on match m
Outsiders(m) ==
    {u \in Users :
        /\ u # Organiser(m)
        /\ ~\E r \in Roles(m) :
               r.userId = u /\ r.role \in {"SCORER", "UMPIRE", "ORGANISER"}}

DoRecordAccessBall ==
    \E m \in PlayedMatches, i \in LatestInning :
        IF recordBallCode("scorer", m, i) # 201
        THEN RecordBall("scorer", m, i, AnyDelivery)
        ELSE /\ Len(balls) < MaxAccessBalls
             /\ \E d \in
                    ({[runs |-> 1, ballType |-> "NORMAL", wicket |-> NoWicket, manualStrikeChange |-> FALSE],
                      [runs |-> 0, ballType |-> "NORMAL",
                       wicket |-> [present |-> TRUE, kind |-> "BOWLED", playerId |-> innings[i].strikerId],
                       manualStrikeChange |-> FALSE]}) :
                  RecordBall("scorer", m, i, d)

\* the requests of a user without access
OutsiderStartInning ==
    \E m \in PlayedMatches :
        \E u \in Outsiders(m), body \in StartBodies : StartInning(u, m, body)
OutsiderRecordBall ==
    \E m \in PlayedMatches :
        \E u \in Outsiders(m), i \in 1..Max(1, Len(innings)), d \in {AnyDelivery} : RecordBall(u, m, i, d)
OutsiderSelectBatsman ==
    \E m \in PlayedMatches :
        \E u \in Outsiders(m), i \in 1..Max(1, Len(innings)), p \in Roster(matches[m].teamAId) : SelectBatsman(u, m, i, p)
OutsiderSelectBowler ==
    \E m \in PlayedMatches :
        \E u \in Outsiders(m), i \in 1..Max(1, Len(innings)), p \in Roster(matches[m].teamBId) : SelectBowler(u, m, i, p)

NextAccess ==
    \/ DoStartMatch
    \/ DoStartFirstInning
    \/ DoSelectBatsman
    \/ DoSelectBowler
    \/ DoRecordAccessBall
    \/ OutsiderStartInning
    \/ OutsiderRecordBall
    \/ OutsiderSelectBatsman
    \/ OutsiderSelectBowler

SpecAccess == Init /\ [][NextAccess]_vars

\* ------------------------------------------------------------------------
\* Specification: innings opened with complete and incomplete bodies
\* ------------------------------------------------------------------------
\* Inning rows and ball rows the exploration of start-inning may create
MaxStartInnings == 2
MaxStartBalls == 2

\* a body with every field present for the teams bt and wt
FullStartBody(bt, wt) ==
    [inningNumber |-> Len(innings) + 1,
     battingTeamId |-> bt, bowlingTeamId |-> wt,
     strikerId |-> Opener(bt), nonStrikerId |-> SecondOpener(bt), bowlerId |-> Opener(wt)]

\* the bodies sent: complete bodies for every pair of teams, among them equal
\* teams and a team that is not of the match, and bodies lacking one field
AllStartBodies ==
    {FullStartBody(bt, wt) : bt \in Teams, wt \in Teams}
    \cup {[FullStartBody("tA", "tB") EXCEPT ![f] = Null] :
             f \in {"battingTeamId", "bowlingTeamId", "strikerId", "nonStrikerId", "bowlerId"}}
    \cup {[FullStartBody("tB", "tA") EXCEPT !.inningNumber = 0]}

DoStartAnyInning ==
    \E m \in Matches, body \in AllStartBodies :
        /\ startInningCode("scorer", m, body) = 201 => Len(innings) < MaxStartInnings
        /\ StartInning("scorer", m, body)

DoRecordStartBall ==
    \E m \in PlayedMatches, i \in LatestInning :
        IF recordBallCode("scorer", m, i) # 201
        THEN RecordBall("scorer", m, i, AnyDelivery)
        ELSE /\ Len(balls) < MaxStartBalls
             /\ \E d \in
                    ([runs : RunsValues, ballType : {"NORMAL", "WIDE"}, wicket : {NoWicket},
                      manualStrikeChange : {FALSE}]) :
                  RecordBall("scorer", m, i, d)

NextStart ==
    \/ DoStartMatch
    \/ DoStartAnyInning
    \/ DoRecordStartBall

SpecStart == Init /\ [][NextStart]_vars

\* ------------------------------------------------------------------------
\* Specification: start-inning bodies with one or two deliveries after them
\* ------------------------------------------------------------------------
NextValidation ==
    \/ DoStartMatch
    \/ DoStartAnyInning
    \/ DoRecordAccessBall

SpecValidation == Init /\ [][NextValidation]_vars

\* ------------------------------------------------------------------------
\* Specification: one inning of one six-ball over
\* ------------------------------------------------------------------------
\* ball rows the exploration of the six-ball over may create
MaxSixBalls == 6

DoRecordSixBall ==
    \E m \in PlayedMatches, i \in LatestInning :
        IF recordBallCode("scorer", m, i) # 201
        THEN RecordBall("scorer", m, i, AnyDelivery)
        ELSE /\ Len(balls) < MaxSixBalls
             /\ \E d \in
                    ({[runs |-> 1, ballType |-> "NORMAL", wicket |-> NoWicket, manualStrikeChange |-> FALSE],
                      [runs |-> 0, ballType |-> "NORMAL", wicket |-> NoWicket, manualStrikeChange |-> FALSE],
                      [runs |-> 0, ballType |-> "WIDE", wicket |-> NoWicket, manualStrikeChange |-> FALSE]}) :
                  RecordBall("scorer", m, i, d)

NextSix ==
    \/ DoStartMatch
    \/ DoStartFirstInning
    \/ DoSelectBowler
    \/ DoRecordSixBall

SpecSix == InitCfg([ballsPerOver |-> 6, oversLimit |-> 1]) /\ [][NextSix]_vars

\* ------------------------------------------------------------------------
\* Specification: a match started, scored over two innings and ended
\* ------------------------------------------------------------------------
NextLifecycle ==
    \/ DoStartMatch
    \/ DoEndMatch
    \/ DoStartInning
    \/ DoSelectBowler
    \/ DoRecordOverBall

SpecLifecycle == Init /\ [][NextLifecycle]_vars

\* ------------------------------------------------------------------------
\* Specification: end-match requests interleaved at their database calls
\* ------------------------------------------------------------------------
\* prisma.match.findUnique of POST /:matchId/end and the tests of organiser and
\* status; row keeps the match row that was read
BeginEndMatch(r, userId, matchId) ==
    /\ inflight[r].pc = "idle"
    /\ LET code == IF Organiser(matchId) # Null /\ Organiser(matchId) # userId THEN 403
                   ELSE IF matches[matchId].status \notin {"SCHEDULED", "LIVE"} THEN 400
                   ELSE 200
       IN  IF code # 200
           THEN /\ response' = Resp("endMatch", code)
                /\ UNCHANGED <<dbVars, endedInnings, inflight>>
           ELSE /\ inflight' = [inflight EXCEPT ![r] =
                       [Idle EXCEPT !.pc = "endMatch", !.matchId = matchId,
                                    !.row = matches[matchId]]]
                /\ UNCHANGED <<dbVars, response, endedInnings>>

\* the rest of POST /:matchId/end: the innings and balls are read and tested,
\* the sums are taken when the row read at the start has statsApplied false,
\* and the transaction adds them and completes the match
FinishEndMatch(r) ==
    LET q == inflight[r]
        code == IF Cardinality(inningIdsOf(q.matchId)) < 2 THEN 400
                ELSE IF secondInningInProgress(q.matchId) THEN 400
                ELSE 200
    IN  /\ q.pc = "endMatch"
        /\ response' = Resp("endMatch", code)
        /\ inflight' = [inflight EXCEPT ![r] = Idle]
        /\ UNCHANGED <<innings, balls, battingEntries, bowlingEntries, endedInnings>>
        /\ IF code # 200
           THEN UNCHANGED <<matches, players>>
           ELSE /\ players' = IF ~q.row.statsApplied
                              THEN appliedTotals(q.matchId)
                              ELSE players
                /\ matches' = [matches EXCEPT ![q.matchId] =
                                  Merge(@, Merge(matchResultOf(q.matchId),
                                                 [status |-> "COMPLETED",
                                                  statsApplied |-> TRUE]))]

DoBeginEndMatch == \E r \in Slots, m \in PlayedMatches : BeginEndMatch(r, "org", m)
DoFinishEndMatch == \E r \in Slots : FinishEndMatch(r)

NextTotals ==
    \/ DoStartMatch
    \/ DoStartInning
    \/ DoRecordAccessBall
    \/ DoBeginEndMatch
    \/ DoFinishEndMatch

SpecTotals == Init /\ [][NextTotals]_vars

\* ------------------------------------------------------------------------
\* Specification: one inning scored and ended manually at any time
\* ------------------------------------------------------------------------
NextEnd ==
    \/ DoStartMatch
    \/ DoStartFirstInning
    \/ DoSelectBowler
    \/ DoEndInning
    \/ DoRecordOverBall

SpecEnd == Init /\ [][NextEnd]_vars

\* ------------------------------------------------------------------------
\* Specification: one inning scored with wickets on rotating deliveries
\* ------------------------------------------------------------------------
\* ball rows the exploration of dismissals may create
MaxDismissalBalls == 2

\* legal balls and wides with even and odd runs, with and without the manual
\* strike change; the wicket names the striker, the non-striker, a player in
\* neither slot or nobody, or there is no wicket
DoRecordDismissalBall ==
    \E m \in PlayedMatches, i \in LatestInning :
        IF recordBallCode("scorer", m, i) # 201
        THEN RecordBall("scorer", m, i, AnyDelivery)
        ELSE /\ Len(balls) < MaxDismissalBalls
             /\ \E d \in
                    [runs : RunsValues, ballType : {"NORMAL", "WIDE"},
                     wicket : {NoWicket}
                              \cup [present : {TRUE}, kind : {"RUN_OUT"},
                                    playerId : {innings[i].strikerId, innings[i].nonStrikerId,
                                                Opener(innings[i].bowlingTeamId), Null}],
                     manualStrikeChange : BOOLEAN] :
                  RecordBall("scorer", m, i, d)

NextDismissals ==
    \/ DoStartMatch
    \/ DoStartFirstInning
    \/ DoSelectBatsman
    \/ DoSelectBowler
    \/ DoRecordDismissalBall

SpecDismissals == Init /\ [][NextDismissals]_vars

\* ------------------------------------------------------------------------
\* Specification: one inning scored with wickets on every ball type
\* ------------------------------------------------------------------------
\* ball rows the exploration of wickets may create
MaxWicketBalls == 2

DoRecordWicketBall ==
    \E m \in PlayedMatches, i \in LatestInning :
        IF recordBallCode("scorer", m, i) # 201
        THEN RecordBall("scorer", m, i, AnyDelivery)
        ELSE \* the wicket objects sent: the striker bowled, the non-striker run
             \* out, a run-out that names no player, a wicket without kind that
             \* names the striker; the striker bowled on every ball type, every
             \* wicket object on a legal ball and on a wide, a ball without wicket
             LET WicketReports ==
                     {[present |-> TRUE, kind |-> "BOWLED", playerId |-> innings[i].strikerId],
                      [present |-> TRUE, kind |-> "RUN_OUT", playerId |-> innings[i].nonStrikerId],
                      [present |-> TRUE, kind |-> "RUN_OUT", playerId |-> Null],
                      [present |-> TRUE, kind |-> Null, playerId |-> innings[i].strikerId]}
                 WicketDeliveries ==
                     [runs : {0}, ballType : BallTypes,
                      wicket : {[present |-> TRUE, kind |-> "BOWLED", playerId |-> innings[i].strikerId]},
                      manualStrikeChange : {FALSE}]
                     \cup [runs : {0}, ballType : {"NORMAL", "WIDE"}, wicket : WicketReports,
                           manualStrikeChange : {FALSE}]
                     \cup {AnyDelivery}
             IN  /\ Len(balls) < MaxWicketBalls
                 /\ \E d \in WicketDeliveries : RecordBall("scorer", m, i, d)

NextWickets ==
    \/ DoStartMatch
    \/ DoStartFirstInning
    \/ DoSelectBatsman
    \/ DoSelectBowler
    \/ DoRecordWicketBall

SpecWickets == Init /\ [][NextWickets]_vars

\* ------------------------------------------------------------------------
\* Specification: one inning scored with boundaries on every ball type
\* ------------------------------------------------------------------------
\* ball rows the exploration of runs may create
MaxRunBalls == 2

DoRecordRunBall ==
    \E m \in PlayedMatches, i \in LatestInning :
        IF recordBallCode("scorer", m, i) # 201
        THEN RecordBall("scorer", m, i, AnyDelivery)
        ELSE /\ Len(balls) < MaxRunBalls
             /\ \E d \in
                    ([runs : {0, 1, 4, 6}, ballType : BallTypes, wicket : {NoWicket},
                      manualStrikeChange : {FALSE}]) :
                  RecordBall("scorer", m, i, d)

NextRuns ==
    \/ DoStartMatch
    \/ DoStartFirstInning
    \/ DoSelectBowler
    \/ DoRecordRunBall

SpecRuns == Init /\ [][NextRuns]_vars

LegalTypes == {"NORMAL", "FREE_HIT", "BYE", "LEG_BYE"}

BallsOf(i) == {k \in 1..Len(balls) : balls[k].inningId = i}
LegalCount(i) == Cardinality({k \in BallsOf(i) : balls[k].ballType \in LegalTypes})
BallsLimit(i) == matches[innings[i].matchId].oversLimit
                 * matches[innings[i].matchId].ballsPerOver

\* the legal balls of inning i in a Ball table
LegalCountIn(ballTable, i) ==
    Cardinality({k \in 1..Len(ballTable) :
                    ballTable[k].inningId = i /\ ballTable[k].ballType \in LegalTypes})

\* the runs the rows k..Len(balls) of the Ball table give inning i
RECURSIVE LogRunsFrom(_, _)
LogRunsFrom(k, i) ==
    IF k > Len(balls) THEN 0
    ELSE (IF balls[k].inningId = i
          THEN balls[k].runs + (IF balls[k].ballType \notin LegalTypes THEN 1 ELSE 0)
          ELSE 0) + LogRunsFrom(k + 1, i)


\* the total of a column over the rows k..Len(table) of inning i
RECURSIVE ColumnFrom(_, _, _, _)
ColumnFrom(table, col, k, i) ==
    IF k > Len(table) THEN 0
    ELSE (IF table[k].inningId = i THEN table[k][col] ELSE 0)
         + ColumnFrom(table, col, k + 1, i)

\* a column of the scorecard row of player p in inning i, 0 without a row
EntryColumn(table, col, i, p) ==
    LET rows == {k \in 1..Len(table) : table[k].inningId = i /\ table[k].playerId = p}
    IN  IF rows = {} THEN 0 ELSE table[CHOOSE k \in rows : TRUE][col]

\* the slots of row after against those of row before
Exchanged(before, after) ==
    after.strikerId = before.nonStrikerId /\ after.nonStrikerId = before.strikerId
Kept(before, after) ==
    after.strikerId = before.strikerId /\ after.nonStrikerId = before.nonStrikerId

\* the step answers a record-ball request; the same delivery accepted twice
\* in a row gives the same response and a longer Ball table
BallStep == response'.op = "recordBall" /\ (response' # response \/ balls' # balls)

\* the step is an accepted record-ball request
AcceptedStep == BallStep /\ response'.code = 201

C4_EndedInningTakesNoBall ==
    [][\A i \in endedInnings : Cardinality(BallsOf(i))' = Cardinality(BallsOf(i))]_vars

\* C5: the legal balls recorded for an inning never exceed oversLimit * ballsPerOver.
C5_LegalBallsWithinLimit ==
    \A i \in 1..Len(innings) : LegalCount(i) <= BallsLimit(i)

\* C6: the wicket count of an inning never exceeds min(10, size of the batting roster).
C6_WicketsWithinRoster ==
    \A i \in 1..Len(innings) :
        /\ innings[i].wickets <= 10
        /\ innings[i].wickets <= Cardinality(Roster(innings[i].battingTeamId))

\* C10: an accepted delivery that completes an over leaves currentBowlerId empty;
\* while it is empty no ball is recorded on the inning, and it is filled only by
\* a select-bowler request that succeeds.
C10_OverBreakNeedsBowler ==
    [][/\ AcceptedStep =>
            LET i == response'.inningId
                d == response'.d
            IN  (/\ d.ballType \in LegalTypes
                 /\ (LegalCount(i) + 1) % matches[response'.matchId].ballsPerOver = 0)
                => innings'[i].currentBowlerId = Null
       /\ \A i \in 1..Len(innings) :
             innings[i].currentBowlerId = Null =>
                /\ Cardinality(BallsOf(i))' = Cardinality(BallsOf(i))
                /\ innings'[i].currentBowlerId # Null =>
                      response'.op = "selectBowler" /\ response'.code = 200]_vars

\* after an over the bowler slot is empty and a record-ball request was refused
C10_Witness ==
    /\ response.op = "recordBall" /\ response.code = 409
    /\ \E i \in 1..Len(innings) :
          /\ i = response.inningId
          /\ innings[i].currentBowlerId = Null
          /\ innings[i].strikerId # Null /\ innings[i].nonStrikerId # Null
          /\ LegalCount(i) > 0
          /\ LegalCount(i) % matches[innings[i].matchId].ballsPerOver = 0

\* C2: when every record-ball request has been answered, the inning row holds
\* what the recorded balls add up to: runs and wickets of every ball, and one
\* completed over per ballsPerOver legal balls.
C2_ConcurrentBallsAllCounted ==
    Active = {} =>
       \A i \in 1..Len(innings) :
          /\ innings[i].runs = LogRunsFrom(1, i)
          /\ innings[i].wickets = Cardinality({k \in BallsOf(i) : balls[k].wicket # Null})
          /\ innings[i].overs = LegalCount(i) \div matches[innings[i].matchId].ballsPerOver

\* C3: when no record-ball request is in progress, every recorded ball has its
\* inning aggregate and scorecard updates: the inning runs and wickets, the
\* balls faced and the balls bowled add up to the recorded balls.
C3_BallWritesAreOneUnit ==
    Active = {} =>
       \A i \in 1..Len(innings) :
          /\ innings[i].runs = LogRunsFrom(1, i)
          /\ innings[i].wickets = Cardinality({k \in BallsOf(i) : balls[k].wicket # Null})
          /\ ColumnFrom(battingEntries, "ballsFaced", 1, i) = LegalCount(i)
          /\ ColumnFrom(bowlingEntries, "balls", 1, i) = LegalCount(i)

\* C7: an accepted delivery adds one legal ball when it is NORMAL, FREE_HIT, BYE
\* or LEG_BYE and none when it is WIDE, NO_BALL or PENALTY; for the latter the
\* striker's ballsFaced and the bowler's balls stay as they were.
C7_LegalDeliveryRule ==
    [][AcceptedStep =>
          LET i == response'.inningId
              d == response'.d
              striker == innings[i].strikerId
              bowler == innings[i].currentBowlerId
          IN  /\ d.ballType \in LegalTypes =>
                    LegalCountIn(balls', i) = LegalCountIn(balls, i) + 1
              /\ d.ballType \notin LegalTypes =>
                    /\ LegalCountIn(balls', i) = LegalCountIn(balls, i)
                    /\ EntryColumn(battingEntries', "ballsFaced", i, striker)
                          = EntryColumn(battingEntries, "ballsFaced", i, striker)
                    /\ EntryColumn(bowlingEntries', "balls", i, bowler)
                          = EntryColumn(bowlingEntries, "balls", i, bowler)]_vars

\* a wide was accepted after a legal ball of the same bowler
C7_Witness ==
    /\ response.op = "recordBall" /\ response.code = 201
    /\ response.d.ballType = "WIDE"
    /\ Len(balls) = 2
    /\ balls[1].ballType \in LegalTypes /\ balls[2].ballType = "WIDE"
    /\ balls[1].bowlerId = balls[2].bowlerId
    /\ EntryColumn(bowlingEntries, "balls", response.inningId, balls[2].bowlerId) = 1

\* C8: an accepted delivery without a wicket leaves the striker and non-striker
\* slots exchanged exactly when an odd number of these hold: the delivery is
\* legal with odd runs, manualStrikeChange is set, the delivery completes an over.
C8_StrikeRotationParity ==
    [][(AcceptedStep /\ ~response'.d.wicket.present) =>
          LET i == response'.inningId
              d == response'.d
              legal == d.ballType \in LegalTypes
              oddRuns == legal /\ d.runs % 2 = 1
              over == legal /\ (LegalCountIn(balls, i) + 1)
                                  % matches[response'.matchId].ballsPerOver = 0
              swaps == (IF oddRuns THEN 1 ELSE 0)
                       + (IF d.manualStrikeChange THEN 1 ELSE 0)
                       + (IF over THEN 1 ELSE 0)
          IN  IF swaps % 2 = 1
              THEN Exchanged(innings[i], innings'[i])
              ELSE Kept(innings[i], innings'[i])]_vars

\* an odd-run legal delivery with a manual change was accepted as the first ball
C8_Witness ==
    /\ response.op = "recordBall" /\ response.code = 201
    /\ response.d.ballType = "NORMAL" /\ response.d.runs = 1
    /\ response.d.manualStrikeChange /\ ~response.d.wicket.present
    /\ Len(balls) = 1
    /\ innings[response.inningId].strikerId = Opener(innings[response.inningId].battingTeamId)
    /\ innings[response.inningId].nonStrikerId
          = SecondOpener(innings[response.inningId].battingTeamId)

\* C9 as stated: every accepted delivery that completes an over leaves the
\* striker and non-striker slots exchanged relative to the pre-ball occupants.
C9_OverCompletionAlwaysExchanges ==
    [][AcceptedStep =>
          LET i == response'.inningId
              d == response'.d
          IN  (/\ d.ballType \in LegalTypes
               /\ (LegalCountIn(balls, i) + 1) % matches[response'.matchId].ballsPerOver = 0)
              => Exchanged(innings[i], innings'[i])]_vars

\* C9 amended: an accepted delivery that completes an over, with no wicket that
\* names a player, leaves the slots exchanged exactly when the run and manual
\* swaps cancel or are both absent (runs odd and manualStrikeChange, or neither);
\* with one of the two the over swap undoes it and the slots stay as they were.
C9_OverCompletionSwapsOnce ==
    [][AcceptedStep =>
          LET i == response'.inningId
              d == response'.d
          IN  (/\ d.ballType \in LegalTypes
               /\ (LegalCountIn(balls, i) + 1) % matches[response'.matchId].ballsPerOver = 0
               /\ ~(d.wicket.present /\ d.wicket.playerId # Null))
              => IF (d.runs % 2 = 1) = d.manualStrikeChange
                 THEN Exchanged(innings[i], innings'[i])
                 ELSE Kept(innings[i], innings'[i])]_vars

\* a single without manual change completed the over and the openers kept
\* their ends
C9_Witness ==
    /\ response.op = "recordBall" /\ response.code = 201
    /\ response.d.ballType = "NORMAL" /\ response.d.runs = 1
    /\ ~response.d.manualStrikeChange
    /\ LET i == response.inningId
       IN  /\ LegalCount(i) = matches[response.matchId].ballsPerOver
           /\ balls[Len(balls)].ballType = "NORMAL"
           /\ innings[i].currentBowlerId = Null
           /\ innings[i].strikerId = balls[Len(balls)].batsmanId


\* C11: an accepted delivery whose wicket names the striker leaves strikerId
\* empty; while it is empty a record-ball request on the inning of a LIVE match
\* is answered 409 and records nothing, and the slot is filled only by a
\* select-batsman request; after that request, with the non-striker and bowler
\* slots filled, a record-ball request is accepted.
C11_StrikerOutNeedsBatsman ==
    [][/\ AcceptedStep =>
            LET i == response'.inningId
                d == response'.d
            IN  (d.wicket.present /\ d.wicket.playerId = innings[i].strikerId)
                => innings'[i].strikerId = Null
       /\ \A i \in 1..Len(innings) :
             (innings[i].strikerId = Null /\ matches[innings[i].matchId].status = "LIVE") =>
                /\ (response'.op = "recordBall" /\ response'.inningId = i
                    /\ response'.matchId = innings[i].matchId)
                   => (response'.code = 409 /\ UNCHANGED dbVars)
                /\ innings'[i].strikerId # Null =>
                      /\ response'.op = "selectBatsman" /\ response'.code = 200
                      /\ response'.inningId = i
                      /\ innings'[i].strikerId = response'.playerId
                /\ (response'.op = "selectBatsman" /\ response'.code = 200 /\ response' # response /\ response'.inningId = i
                    /\ innings[i].nonStrikerId # Null /\ innings[i].currentBowlerId # Null)
                   => recordBallCode("scorer", innings[i].matchId, i)' = 201]_vars

\* the striker was bowled first ball, a batter was sent in, and the next ball
\* was accepted
C11_Witness ==
    /\ response.op = "recordBall" /\ response.code = 201
    /\ Len(balls) = 2
    /\ balls[1].inningId = response.inningId /\ balls[2].inningId = response.inningId
    /\ balls[1].wicket = "BOWLED" /\ balls[1].ballType = "NORMAL"
    /\ \E k \in 1..Len(battingEntries) :
          /\ battingEntries[k].playerId = balls[1].batsmanId
          /\ battingEntries[k].out

\* C12: after the non-striker slot was emptied by a wicket naming the
\* non-striker, a successful select-batsman request puts the chosen player into
\* that emptied slot, the surviving striker keeps a slot, and the next
\* record-ball request is accepted.
C12_SelectBatsmanFillsClearedSlot ==
    [][\A i \in 1..Len(innings) :
          (/\ response'.op = "selectBatsman" /\ response'.code = 200 /\ response' # response /\ response'.inningId = i
           /\ innings[i].nonStrikerId = Null /\ innings[i].strikerId # Null
           /\ innings[i].currentBowlerId # Null
           /\ matches[innings[i].matchId].status = "LIVE")
          => /\ innings'[i].nonStrikerId = response'.playerId
             /\ innings[i].strikerId \in {innings'[i].strikerId, innings'[i].nonStrikerId}
             /\ recordBallCode("scorer", innings[i].matchId, i)' = 201]_vars

\* C13: an accepted delivery that reports a wicket raises the inning's wickets
\* by exactly 1, whatever its ball type and whichever batter (or none) it
\* names; an accepted delivery without a wicket leaves wickets unchanged.
C13_WicketCountsOnce ==
    [][AcceptedStep =>
          LET i == response'.inningId
              d == response'.d
          IN  innings'[i].wickets = innings[i].wickets + (IF d.wicket.present THEN 1 ELSE 0)]_vars

\* a wide with a wicket was accepted after an earlier wicket and the inning
\* shows two wickets
C13_Witness ==
    /\ response.op = "recordBall" /\ response.code = 201
    /\ response.d.ballType = "WIDE" /\ response.d.wicket.present
    /\ innings[response.inningId].wickets = 2

\* C14: after an accepted delivery whose wicket names the striker or the
\* non-striker, the named player has a batting entry in the inning with
\* out = true and dismissal equal to the reported kind, also when the player
\* had not faced a ball before.
C14_DismissedPlayerMarkedOut ==
    [][AcceptedStep =>
          LET i == response'.inningId
              w == response'.d.wicket
          IN  (/\ w.present /\ w.kind # Null /\ w.playerId # Null
               /\ w.playerId \in {innings[i].strikerId, innings[i].nonStrikerId})
              => \E k \in 1..Len(battingEntries') :
                    /\ battingEntries'[k].inningId = i
                    /\ battingEntries'[k].playerId = w.playerId
                    /\ battingEntries'[k].out
                    /\ battingEntries'[k].dismissal = w.kind]_vars

\* C15: an accepted delivery with a wicket raises the current bowler's
\* bowling-entry wickets by 1 unless the wicket kind is run out; for a run out
\* the bowler's wickets are unchanged; the inning's wickets rise by 1 in both
\* cases.
C15_WicketCreditsBowlerUnlessRunOut ==
    [][AcceptedStep =>
          LET i == response'.inningId
              w == response'.d.wicket
              bowler == innings[i].currentBowlerId
          IN  w.present =>
                 /\ EntryColumn(bowlingEntries', "wickets", i, bowler)
                       = EntryColumn(bowlingEntries, "wickets", i, bowler)
                         + (IF w.kind = "RUN_OUT" THEN 0 ELSE 1)
                 /\ innings'[i].wickets = innings[i].wickets + 1]_vars

\* what the step adds to a column of the scorecard row of player p in inning i
Gain(before, after, col, i, p) ==
    EntryColumn(after, col, i, p) - EntryColumn(before, col, i, p)

\* C16: an accepted NORMAL or FREE_HIT delivery of r runs adds r to the inning
\* total, to the striker's runs and to the bowler's runsConceded, 1 to the
\* striker's ballsFaced, 1 to fours exactly when r = 4 and 1 to sixes exactly
\* when r = 6.
C16_BatRunsAttribution ==
    [][AcceptedStep =>
          LET i == response'.inningId
              d == response'.d
              striker == innings[i].strikerId
              bowler == innings[i].currentBowlerId
          IN  d.ballType \in {"NORMAL", "FREE_HIT"} =>
                 /\ innings'[i].runs = innings[i].runs + d.runs
                 /\ Gain(battingEntries, battingEntries', "runs", i, striker) = d.runs
                 /\ Gain(bowlingEntries, bowlingEntries', "runsConceded", i, bowler) = d.runs
                 /\ Gain(battingEntries, battingEntries', "ballsFaced", i, striker) = 1
                 /\ Gain(battingEntries, battingEntries', "fours", i, striker)
                       = (IF d.runs = 4 THEN 1 ELSE 0)
                 /\ Gain(battingEntries, battingEntries', "sixes", i, striker)
                       = (IF d.runs = 6 THEN 1 ELSE 0)]_vars

\* the same striker hit a four and then a six off the same bowler
C16_Witness ==
    /\ response.op = "recordBall" /\ response.code = 201
    /\ response.d.ballType \in {"NORMAL", "FREE_HIT"} /\ response.d.runs = 6
    /\ Len(balls) = 2 /\ balls[1].runs = 4 /\ balls[1].ballType = "NORMAL"
    /\ balls[1].batsmanId = balls[2].batsmanId
    /\ EntryColumn(battingEntries, "runs", response.inningId, balls[2].batsmanId) = 10
    /\ EntryColumn(battingEntries, "fours", response.inningId, balls[2].batsmanId) = 1
    /\ EntryColumn(battingEntries, "sixes", response.inningId, balls[2].batsmanId) = 1
    /\ EntryColumn(bowlingEntries, "runsConceded", response.inningId, balls[2].bowlerId) = 10

\* C17: an accepted BYE or LEG_BYE delivery of r runs adds r to the inning
\* total and 1 to the striker's ballsFaced, and leaves the striker's runs,
\* fours and sixes and the bowler's runsConceded unchanged.
C17_ByeRunsAttribution ==
    [][AcceptedStep =>
          LET i == response'.inningId
              d == response'.d
              striker == innings[i].strikerId
              bowler == innings[i].currentBowlerId
          IN  d.ballType \in {"BYE", "LEG_BYE"} =>
                 /\ innings'[i].runs = innings[i].runs + d.runs
                 /\ Gain(battingEntries, battingEntries', "ballsFaced", i, striker) = 1
                 /\ Gain(battingEntries, battingEntries', "runs", i, striker) = 0
                 /\ Gain(battingEntries, battingEntries', "fours", i, striker) = 0
                 /\ Gain(battingEntries, battingEntries', "sixes", i, striker) = 0
                 /\ Gain(bowlingEntries, bowlingEntries', "runsConceded", i, bowler) = 0]_vars

\* four byes were accepted as the first ball of the inning
C17_Witness ==
    /\ response.op = "recordBall" /\ response.code = 201
    /\ response.d.ballType = "BYE" /\ response.d.runs = 4
    /\ Len(balls) = 1
    /\ innings[response.inningId].runs = 4
    /\ EntryColumn(battingEntries, "ballsFaced", response.inningId, balls[1].batsmanId) = 1
    /\ EntryColumn(battingEntries, "runs", response.inningId, balls[1].batsmanId) = 0
    /\ EntryColumn(bowlingEntries, "runsConceded", response.inningId, balls[1].bowlerId) = 0

\* C18: an accepted WIDE or NO_BALL delivery adds at least 1 to the inning
\* total and the same amount to the bowler's runsConceded, and leaves the
\* striker's runs unchanged; a WIDE with runs = 0 adds exactly 1 to both.
C18_WideNoBallPenaltyRun ==
    [][AcceptedStep =>
          LET i == response'.inningId
              d == response'.d
              striker == innings[i].strikerId
              bowler == innings[i].currentBowlerId
              added == innings'[i].runs - innings[i].runs
          IN  d.ballType \in {"WIDE", "NO_BALL"} =>
                 /\ added >= 1
                 /\ Gain(bowlingEntries, bowlingEntries', "runsConceded", i, bowler) = added
                 /\ Gain(battingEntries, battingEntries', "runs", i, striker) = 0
                 /\ (d.ballType = "WIDE" /\ d.runs = 0) => added = 1]_vars

\* a wide without runs followed a no ball with a run off the same bowler
C18_Witness ==
    /\ response.op = "recordBall" /\ response.code = 201
    /\ response.d.ballType = "WIDE" /\ response.d.runs = 0
    /\ Len(balls) = 2 /\ balls[1].ballType = "NO_BALL" /\ balls[1].runs = 1
    /\ innings[response.inningId].runs = 3
    /\ EntryColumn(bowlingEntries, "runsConceded", response.inningId, balls[2].bowlerId) = 3

\* C19 (as stated): for an accepted PENALTY delivery the penalty runs added to
\* the inning total are also credited to the current bowler's runsConceded.
C19_PenaltyCreditedToBowler ==
    [][AcceptedStep =>
          LET i == response'.inningId
              d == response'.d
              bowler == innings[i].currentBowlerId
          IN  d.ballType = "PENALTY" =>
                 Gain(bowlingEntries, bowlingEntries', "runsConceded", i, bowler)
                    = innings'[i].runs - innings[i].runs]_vars

\* C19 (amended): an accepted PENALTY delivery of r runs adds r + 1 to the
\* inning total and leaves the current bowler's runsConceded unchanged.
C19_PenaltyNotConcededByBowler ==
    [][AcceptedStep =>
          LET i == response'.inningId
              d == response'.d
              bowler == innings[i].currentBowlerId
          IN  d.ballType = "PENALTY" =>
                 /\ innings'[i].runs = innings[i].runs + d.runs + 1
                 /\ Gain(bowlingEntries, bowlingEntries', "runsConceded", i, bowler) = 0]_vars

\* a penalty was accepted after the bowler had conceded a four, and the
\* bowler's figure stayed at four while the total moved on
C19_Witness ==
    /\ response.op = "recordBall" /\ response.code = 201
    /\ response.d.ballType = "PENALTY"
    /\ Len(balls) = 2 /\ balls[1].ballType = "NORMAL" /\ balls[1].runs = 4
    /\ balls[1].bowlerId = balls[2].bowlerId
    /\ EntryColumn(bowlingEntries, "runsConceded", response.inningId, balls[2].bowlerId) = 4
    /\ innings[response.inningId].runs = 5 + response.d.runs

\* the innings of the same match numbered before inning i
EarlierInnings(inningTable, i) ==
    {k \in 1..Len(inningTable) :
        /\ inningTable[k].matchId = inningTable[i].matchId
        /\ inningTable[k].inningNumber < inningTable[i].inningNumber}


\* C20: for every accepted delivery the returned inningEnded flag is true
\* exactly when, after the delivery, the legal balls have reached
\* oversLimit x ballsPerOver, or the wickets have reached min(10, batting
\* roster size), or the inning is the second or later and its total exceeds
\* the highest total of the earlier innings of the match.
C20_InningEndedFlagExact ==
    [][AcceptedStep =>
          (response'.inningEnded
              <=> LET i == response'.inningId
                  IN  \/ LegalCountIn(balls', i) >= BallsLimit(i)
                      \/ innings'[i].wickets
                            >= Min(10, Cardinality(Roster(innings'[i].battingTeamId)))
                      \/ /\ EarlierInnings(innings', i) # {}
                         /\ innings'[i].runs
                               > SetMax({innings'[k].runs : k \in EarlierInnings(innings', i)}))]_vars

\* the highest total of the innings of the match numbered before inning i
MaxEarlierRuns(inningTable, i) ==
    SetMax({inningTable[k].runs : k \in EarlierInnings(inningTable, i)})

\* C21: in a second or later inning, an accepted delivery that takes the
\* total above the highest total of the earlier innings returns inningEnded
\* true; a delivery that leaves the total equal to or below it returns
\* inningEnded true only when the overs or the wickets are used up.
C21_ChaseEndsAboveTarget ==
    [][AcceptedStep =>
          LET i == response'.inningId
          IN  EarlierInnings(innings', i) # {} =>
                 /\ innings'[i].runs > MaxEarlierRuns(innings', i) => response'.inningEnded
                 /\ (innings'[i].runs <= MaxEarlierRuns(innings', i) /\ response'.inningEnded)
                    => \/ LegalCountIn(balls', i) >= BallsLimit(i)
                       \/ innings'[i].wickets
                             >= Min(AllOutWickets, Cardinality(Roster(innings'[i].battingTeamId)))]_vars

\* the second inning passed the first inning's total with a ball of its over
\* left and no wicket down, and the response said the inning ended
C21_Witness ==
    /\ response.op = "recordBall" /\ response.code = 201 /\ response.inningEnded
    /\ EarlierInnings(innings, response.inningId) # {}
    /\ innings[response.inningId].runs = MaxEarlierRuns(innings, response.inningId) + 1
    /\ innings[response.inningId].wickets = 0
    /\ LegalCountIn(balls, response.inningId) < BallsLimit(response.inningId)


\* C22: a select-bowler request is refused and leaves currentBowlerId and
\* every other stored value unchanged when the inning already has a current
\* bowler or when the proposed bowler is not on the bowling team's roster.
C22_SelectBowlerRefusals ==
    [][\A i \in 1..Len(innings) :
          (/\ response'.op = "selectBowler" /\ response' # response /\ response'.inningId = i
           /\ \/ innings[i].currentBowlerId # Null
              \/ response'.playerId \notin Roster(innings[i].bowlingTeamId))
          => (response'.code >= 400 /\ UNCHANGED dbVars)]_vars

\* at an over break a player of the batting team was proposed as bowler and
\* refused
C22_Witness ==
    /\ response.op = "selectBowler" /\ response.code = 400
    /\ response.inningId \in 1..Len(innings)
    /\ matches[response.matchId].status = "LIVE"
    /\ innings[response.inningId].currentBowlerId = Null
    /\ response.playerId \in Roster(innings[response.inningId].battingTeamId)
    /\ Len(balls) >= 2

\* C23: no bowler bowls two consecutive overs: at an over break a
\* select-bowler request naming the bowler of the over just completed is
\* refused and changes nothing, and in the ball log all balls of one over have
\* the same bowler and the bowlers of overs N and N+1 differ.
C23_NoConsecutiveOvers ==
    [][/\ \A j, k \in 1..Len(balls') :
             balls'[j].inningId = balls'[k].inningId =>
                /\ balls'[j].overNumber = balls'[k].overNumber
                   => balls'[j].bowlerId = balls'[k].bowlerId
                /\ balls'[k].overNumber = balls'[j].overNumber + 1
                   => balls'[j].bowlerId # balls'[k].bowlerId
       /\ \A i \in 1..Len(innings) :
             LET \* the balls of the over of inning i completed last
                 done == {k \in 1..Len(balls) :
                             /\ balls[k].inningId = i
                             /\ balls[k].overNumber
                                   = LegalCountIn(balls, i)
                                        \div matches[innings[i].matchId].ballsPerOver}
             IN  (/\ response'.op = "selectBowler" /\ response' # response /\ response'.inningId = i
                  /\ innings[i].currentBowlerId = Null
                  /\ done # {}
                  /\ response'.playerId = balls[SetMax(done)].bowlerId)
                 => (response'.code = 400 /\ UNCHANGED dbVars)]_vars

\* the second over is under way within the overs limit, bowled by another
\* bowler than the first
C23_Witness ==
    /\ response.op = "recordBall" /\ response.code = 201
    /\ Len(balls) >= 3
    /\ balls[1].overNumber = 1 /\ balls[Len(balls)].overNumber = 2
    /\ balls[1].bowlerId # balls[Len(balls)].bowlerId
    /\ LegalCountIn(balls, response.inningId) <= BallsLimit(response.inningId)

\* C24: in every reachable state of an inning, strikerId and nonStrikerId are
\* never the same non-null player.
C24_BattingSlotsDistinct ==
    \A i \in 1..Len(innings) :
        innings[i].strikerId # Null => innings[i].strikerId # innings[i].nonStrikerId

\* C25: every accepted record-ball request appends exactly one row to the
\* Ball table and every refused one appends none; the same delivery accepted
\* twice in a row on an inning gives two rows and adds its runs, its wicket and
\* its legal ball to the inning a second time, provided the three slots are
\* still filled.
C25_OneBallPerAcceptedCall ==
    [][BallStep =>
          LET i == response'.inningId
              d == response'.d
          IN  /\ response'.code # 201 => balls' = balls
              /\ response'.code = 201 =>
                    /\ Len(balls') = Len(balls) + 1
                    /\ SubSeq(balls', 1, Len(balls)) = balls
                    /\ balls'[Len(balls')].inningId = i
                    /\ balls'[Len(balls')].runs = d.runs
                    /\ balls'[Len(balls')].ballType = d.ballType
              /\ (/\ response.op = "recordBall" /\ response.code = 201
                  /\ response.inningId = i /\ response.d = d
                  /\ response.matchId = response'.matchId
                  /\ matches[response.matchId].status = "LIVE"
                  /\ ~selectionPending(innings[i]))
                 => /\ response'.code = 201
                    /\ innings'[i].runs = innings[i].runs + runsToAddOf(d)
                    /\ innings'[i].wickets
                          = innings[i].wickets + (IF d.wicket.present THEN 1 ELSE 0)
                    /\ LegalCountIn(balls', i)
                          = LegalCountIn(balls, i) + (IF d.ballType \in LegalTypes THEN 1 ELSE 0)]_vars

\* the same wide with a wicket was accepted twice in a row: two rows, two
\* wickets and two penalty runs
C25_Witness ==
    /\ response.op = "recordBall" /\ response.code = 201
    /\ response.d.ballType = "WIDE" /\ response.d.wicket.present
    /\ Len(balls) = 2
    /\ balls[1].ballType = "WIDE" /\ balls[2].ballType = "WIDE"
    /\ balls[1].wicket = balls[2].wicket /\ balls[1].runs = balls[2].runs
    /\ innings[response.inningId].wickets = 2
    /\ innings[response.inningId].runs = 2

RECURSIVE ReplayFrom(_, _, _, _, _, _)
\* the rows k..Len(ballTable) of inning i replayed onto the aggregate and
\* scorecard st by the rules of the handler; a stored row holds the wicket kind
\* only, so the dismissed players are supplied in who
ReplayFrom(ballTable, k, i, st, cfg, who) ==
    IF k > Len(ballTable) THEN st
    ELSE LET row == ballTable[k]
             d == [runs |-> row.runs, ballType |-> row.ballType,
                   wicket |-> IF row.wicket # Null
                              THEN [present |-> TRUE, kind |-> row.wicket, playerId |-> who[k]]
                              ELSE NoWicket,
                   manualStrikeChange |-> FALSE]
             inn == [runs |-> st.runs, wickets |-> st.wickets, overs |-> st.overs,
                     strikerId |-> row.batsmanId, nonStrikerId |-> Null,
                     currentBowlerId |-> row.bowlerId]
             upd == updateDataOf(inn, st.lb, cfg, d)
             applied ==
                 [runs |-> upd.runs, wickets |-> upd.wickets, overs |-> upd.overs,
                  lb |-> st.lb + (IF nextStateOf(inn, st.lb, cfg, d).addBall THEN 1 ELSE 0),
                  bat |-> markOut(upsertBatting(st.bat, row.inningId, inn, d), row.inningId, d),
                  bowl |-> upsertBowling(st.bowl, row.inningId, inn, cfg, d)]
         IN  ReplayFrom(ballTable, k + 1, i,
                        IF row.inningId = i THEN applied ELSE st, cfg, who)

\* C26: the ball log of an inning whose deliveries were accepted one at a time,
\* replayed row by row through the rules of the record-ball handler from the
\* empty aggregate, gives the inning's runs, wickets and overs and every
\* BattingEntry and BowlingEntry row; the dismissed players, which the rows do
\* not hold, may be chosen freely.
C26_LogReplayReproducesState ==
    \A i \in 1..Len(innings) :
        \E who \in [1..Len(balls) -> Roster(innings[i].battingTeamId) \cup {Null}] :
            LET st == ReplayFrom(balls, 1, i,
                                 [runs |-> 0, wickets |-> 0, overs |-> 0, lb |-> 0,
                                  bat |-> <<>>, bowl |-> <<>>],
                                 cfgOf(innings[i].matchId), who)
            IN  /\ st.runs = innings[i].runs
                /\ st.wickets = innings[i].wickets
                /\ st.overs = innings[i].overs
                /\ st.bat = SelectSeq(battingEntries, LAMBDA r : r.inningId = i)
                /\ st.bowl = SelectSeq(bowlingEntries, LAMBDA r : r.inningId = i)

\* C27: a start-inning, record-ball, select-batsman or select-bowler request
\* of a user who is neither the organiser nor holder of a SCORER, UMPIRE or
\* ORGANISER role on the match is answered 403 and changes no stored value.
C27_OutsidersChangeNothing ==
    [][(OutsiderStartInning \/ OutsiderRecordBall
        \/ OutsiderSelectBatsman \/ OutsiderSelectBowler)
       => (response'.code = 403 /\ UNCHANGED dbVars)]_vars

\* a record-ball request was refused for lack of access on an inning that
\* takes the scorer's ball
C27_Witness ==
    /\ response.op = "recordBall" /\ response.code = 403
    /\ response.inningId \in 1..Len(innings)
    /\ recordBallCode("scorer", response.matchId, response.inningId) = 201
    /\ Len(balls) >= 1

\* C28: start-inning creates an inning only when the match is LIVE, every
\* field is supplied and the two teams differ and are teams of the match;
\* otherwise it is refused and no inning is created; a created inning has its
\* three slots filled, so a record-ball request on it is not answered 409.
C28_StartInningValidation ==
    [][\A m \in Matches, body \in AllStartBodies :
          StartInning("scorer", m, body) =>
           LET valid ==
                 /\ matches[m].status = "LIVE"
                 /\ body.inningNumber # 0
                 /\ body.battingTeamId # Null /\ body.bowlingTeamId # Null
                 /\ body.strikerId # Null /\ body.nonStrikerId # Null
                 /\ body.bowlerId # Null
                 /\ body.battingTeamId # body.bowlingTeamId
                 /\ {body.battingTeamId, body.bowlingTeamId}
                       \subseteq {matches[m].teamAId, matches[m].teamBId}
           IN
             /\ ~valid => (response'.code >= 400 /\ UNCHANGED dbVars)
             /\ innings' # innings =>
                   /\ valid
                   /\ response'.code = 201
                   /\ Len(innings') = Len(innings) + 1
                   /\ SubSeq(innings', 1, Len(innings)) = innings
                   /\ innings'[Len(innings')].strikerId = body.strikerId
                   /\ innings'[Len(innings')].nonStrikerId = body.nonStrikerId
                   /\ innings'[Len(innings')].currentBowlerId = body.bowlerId
                   /\ ~selectionPending(innings'[Len(innings')])
                   /\ recordBallCode("scorer", m, Len(innings))' # 409]_vars

\* the first ball of the inning opened second was accepted
C28_Witness ==
    /\ response.op = "recordBall" /\ response.code = 201
    /\ Len(innings) = 2 /\ Len(balls) >= 1
    /\ \A k \in 1..Len(balls) : balls[k].inningId = 2 => k = Len(balls)
    /\ balls[Len(balls)].inningId = 2

\* C29: for the latest inning of a match with more than one inning the chase
\* view gives target = highest earlier total + 1, needed = max(0, target -
\* runs), ballsLeft = max(0, oversLimit x ballsPerOver - legal balls) and
\* wicketsLeft = max(0, 10 - wickets); needed is 0 exactly when the total
\* exceeds the highest earlier total, the test record-ball ends a chase on.
C29_ChaseView ==
    \A m \in Matches :
        LET ids == {k \in 1..Len(innings) : innings[k].matchId = m}
            chase == chaseOf(innings, balls, m)
        IN  /\ chase.present <=> Cardinality(ids) > 1
            /\ chase.present =>
                  LET i == currentInningOf(innings, m)
                  IN  /\ EarlierInnings(innings, i) = ids \ {i}
                      /\ chase.target = MaxEarlierRuns(innings, i) + 1
                      /\ chase.needed = Max(0, chase.target - innings[i].runs)
                      /\ chase.ballsLeft = Max(0, BallsLimit(i) - LegalCountIn(balls, i))
                      /\ chase.wicketsLeft = Max(0, 10 - innings[i].wickets)
                      /\ chase.needed = 0 <=> innings[i].runs > MaxEarlierRuns(innings, i)
                      /\ chase.needed = 0 <=> targetAchieved(innings, i, m, innings[i].runs)

\* the second inning has passed the first inning's total of 1 with a wide and
\* a run, and the view needs no more runs
C29_Witness ==
    /\ Len(innings) = 2
    /\ chaseOf(innings, balls, innings[2].matchId).present
    /\ chaseOf(innings, balls, innings[2].matchId).target = 2
    /\ chaseOf(innings, balls, innings[2].matchId).needed = 0
    /\ chaseOf(innings, balls, innings[2].matchId).ballsLeft = 2
    /\ chaseOf(innings, balls, innings[2].matchId).wicketsLeft = 10
    /\ innings[1].runs = 1 /\ innings[2].runs = 2

\* the log of inning i in a Ball table is six NORMAL deliveries of 1 run
SixSingles(ballTable, i) ==
    /\ Cardinality({k \in 1..Len(ballTable) : ballTable[k].inningId = i}) = 6
    /\ \A k \in 1..Len(ballTable) :
          ballTable[k].inningId = i =>
             /\ ballTable[k].ballType = "NORMAL" /\ ballTable[k].runs = 1
             /\ ballTable[k].wicket = Null

\* C30: with ballsPerOver = 6 and oversLimit = 1, the sixth of six accepted
\* NORMAL deliveries of 1 run from a fresh inning leaves the total at 6, the
\* overs display at "1.0" and currentBowlerId empty.
C30_SixSinglesScenario ==
    [][AcceptedStep =>
          LET i == response'.inningId
          IN  (/\ cfgOf(innings[i].matchId) = [ballsPerOver |-> 6, oversLimit |-> 1]
               /\ SixSingles(balls', i))
              => /\ innings'[i].runs = 6
                 /\ innings'[i].overs = 1
                 /\ buildMatchState(innings', balls', i).overs = "1.0"
                 /\ buildMatchState(innings', balls', i).runs = 6
                 /\ innings'[i].currentBowlerId = Null
                 /\ buildMatchState(innings', balls', i).needNewBowler]_vars

\* the sixth single of the over has just been accepted
C30_Witness ==
    /\ response.op = "recordBall" /\ response.code = 201
    /\ response.d.ballType = "NORMAL" /\ response.d.runs = 1
    /\ SixSingles(balls, response.inningId)
    /\ matches[response.matchId].ballsPerOver = 6
    /\ innings[response.inningId].runs = 6

\* C31 as stated: with ballsPerOver = 6, after six accepted NORMAL deliveries
\* of 1 run from a fresh inning (no wicket, no manual strike change) both
\* batting slots hold their original occupants.
C31_SixSinglesKeepOccupants ==
    [][AcceptedStep =>
          LET i == response'.inningId
          IN  (/\ matches[innings[i].matchId].ballsPerOver = 6
               /\ SixSingles(balls', i))
              => /\ innings'[i].strikerId = Opener(innings[i].battingTeamId)
                 /\ innings'[i].nonStrikerId = SecondOpener(innings[i].battingTeamId)]_vars

\* C31: with ballsPerOver = 6, after six accepted NORMAL deliveries of 1 run
\* from a fresh inning (no wicket, no manual strike change) the slots have been
\* swapped seven times, six for the odd runs and one for the completed over, so
\* the original non-striker is the striker and the original striker the
\* non-striker; the sixth delivery itself swaps twice and leaves the slots as
\* the fifth left them.
C31_SixSinglesExchangeOccupants ==
    [][AcceptedStep =>
          LET i == response'.inningId
          IN  (/\ matches[innings[i].matchId].ballsPerOver = 6
               /\ SixSingles(balls', i))
              => /\ innings'[i].strikerId = SecondOpener(innings[i].battingTeamId)
                 /\ innings'[i].nonStrikerId = Opener(innings[i].battingTeamId)
                 /\ Kept(innings[i], innings'[i])
                 /\ balls'[1].batsmanId = Opener(innings[i].battingTeamId)]_vars

\* the sixth single has been accepted and the openers have changed slots
C31_Witness ==
    /\ response.op = "recordBall" /\ response.code = 201
    /\ SixSingles(balls, response.inningId)
    /\ matches[response.matchId].ballsPerOver = 6
    /\ balls[1].batsmanId = "a1" /\ balls[6].batsmanId = "a2"
    /\ innings[response.inningId].strikerId = "a2"
    /\ innings[response.inningId].nonStrikerId = "a1"

\* C32: within one inning there is at most one BattingEntry per player and the
\* battingOrder values of its entries are pairwise distinct, each entry created
\* after the first holding the largest earlier battingOrder of the inning plus
\* one; also when two record-ball requests are interleaved on the inning.
C32_BattingEntriesUnique ==
    \A j, k \in 1..Len(battingEntries) :
        (j < k /\ battingEntries[j].inningId = battingEntries[k].inningId) =>
            /\ battingEntries[j].playerId # battingEntries[k].playerId
            /\ battingEntries[j].battingOrder # battingEntries[k].battingOrder
            /\ battingEntries[k].battingOrder
                  = SetMax({battingEntries[h].battingOrder : h \in
                               {h \in 1..(k - 1) :
                                   battingEntries[h].inningId = battingEntries[k].inningId}}) + 1

\* C33: once a BattingEntry has out = true with its dismissal, no later
\* select-batsman or record-ball request changes that dismissal or adds runs
\* or balls faced to the entry.
C33_OutEntryIsFinal ==
    [][\A k \in 1..Len(battingEntries) :
          battingEntries[k].out =>
             /\ battingEntries'[k].out
             /\ battingEntries'[k].dismissal = battingEntries[k].dismissal
             /\ battingEntries'[k].runs = battingEntries[k].runs
             /\ battingEntries'[k].ballsFaced = battingEntries[k].ballsFaced]_vars

\* C34: for serially recorded deliveries the (overNumber, ballInOver) keys of
\* an inning never decrease in recording order, every ballInOver lies in
\* 1..ballsPerOver, and no two legal balls of an inning share a key.
C34_BallKeysOrdered ==
    \A k \in 1..Len(balls) :
        /\ balls[k].ballInOver \in 1..matches[innings[balls[k].inningId].matchId].ballsPerOver
        /\ \A j \in 1..(k - 1) :
              balls[j].inningId = balls[k].inningId =>
                 /\ \/ balls[j].overNumber < balls[k].overNumber
                    \/ /\ balls[j].overNumber = balls[k].overNumber
                       /\ balls[j].ballInOver <= balls[k].ballInOver
                 /\ (IsLegalBallRow(balls[j]) /\ IsLegalBallRow(balls[k]))
                    => <<balls[j].overNumber, balls[j].ballInOver>>
                          # <<balls[k].overNumber, balls[k].ballInOver>>

\* a wide, a legal ball and another wide were recorded in this order and share
\* the key (1, 1): one wide precedes and one follows the legal ball of its key
C34_Witness ==
    /\ Len(balls) >= 3
    /\ balls[1].ballType = "WIDE" /\ balls[2].ballType = "NORMAL" /\ balls[3].ballType = "WIDE"
    /\ \A k \in 1..3 : balls[k].inningId = 1 /\ balls[k].overNumber = 1 /\ balls[k].ballInOver = 1

\* C35: on an accepted delivery whose wicket names a player the computed
\* rotation is not applied: a named striker leaves the striker slot empty and
\* the non-striker in place, a named non-striker leaves the non-striker slot
\* empty and the striker in place, a named player in neither slot leaves both
\* slots as they were, whatever the runs, manualStrikeChange and over
\* completion; a wicket that names no player applies the rotation of a
\* delivery without wicket and empties no slot.
C35_NamedWicketSkipsRotation ==
    [][AcceptedStep =>
          LET i == response'.inningId
              d == response'.d
              before == innings[i]
              after == innings'[i]
              legal == d.ballType \in LegalTypes
              completes ==
                  legal /\ (LegalCountIn(balls, i) + 1)
                              % matches[before.matchId].ballsPerOver = 0
              swaps == (IF legal /\ d.runs % 2 = 1 THEN 1 ELSE 0)
                       + (IF d.manualStrikeChange THEN 1 ELSE 0)
                       + (IF completes THEN 1 ELSE 0)
          IN  IF d.wicket.present /\ d.wicket.playerId # Null
              THEN IF d.wicket.playerId = before.strikerId
                   THEN after.strikerId = Null /\ after.nonStrikerId = before.nonStrikerId
                   ELSE IF d.wicket.playerId = before.nonStrikerId
                        THEN after.nonStrikerId = Null /\ after.strikerId = before.strikerId
                        ELSE Kept(before, after)
              ELSE /\ after.strikerId # Null /\ after.nonStrikerId # Null
                   /\ IF swaps % 2 = 1 THEN Exchanged(before, after)
                                       ELSE Kept(before, after)]_vars

\* the delivery that completed the over had odd runs and the manual strike
\* change and named the non-striker: the striker has stayed in the striker slot
C35_Witness ==
    /\ response.op = "recordBall" /\ response.code = 201
    /\ response.d.ballType = "NORMAL" /\ response.d.runs = 1
    /\ response.d.manualStrikeChange
    /\ response.d.wicket.present /\ response.d.wicket.playerId = "a2"
    /\ Len(balls) = 2 /\ LegalCountIn(balls, response.inningId) = 2
    /\ balls[2].batsmanId = "a1"
    /\ innings[response.inningId].strikerId = "a1"
    /\ innings[response.inningId].nonStrikerId = Null
    /\ innings[response.inningId].currentBowlerId = Null

\* C36: after any serial sequence of accepted deliveries the persisted
\* inning.overs is floor(legal balls in the log / ballsPerOver), and the balls
\* of the BowlingEntry rows of the inning and the ballsFaced of its
\* BattingEntry rows both add up to the number of legal balls in the log.
C36_OversAndBallSumsMatchLog ==
    \A i \in 1..Len(innings) :
        /\ innings[i].overs = LegalCount(i) \div matches[innings[i].matchId].ballsPerOver
        /\ ColumnFrom(bowlingEntries, "balls", 1, i) = LegalCount(i)
        /\ ColumnFrom(battingEntries, "ballsFaced", 1, i) = LegalCount(i)

\* three legal balls and a wide are in the log, bowled by two bowlers and
\* faced by two batters, and the first over is complete
C36_Witness ==
    /\ response.op = "recordBall" /\ response.code = 201
    /\ Len(balls) = 4 /\ LegalCount(1) = 3
    /\ innings[1].overs = 1
    /\ Len(bowlingEntries) = 2 /\ Len(battingEntries) = 2
    /\ \E k \in 1..4 : balls[k].ballType = "WIDE"

\* C37: the manual end-inning request changes no stored value (inning
\* aggregate, slots, ball log, scorecards, match status), and a record-ball
\* request handled right after an accepted end-inning on the same inning is
\* answered as without it: accepted when the match is LIVE and the three slots
\* are filled, adding its row and its runs, refused 400 or 409 otherwise.
C37_EndInningChangesNothing ==
    [][/\ response'.op = "endInning" => UNCHANGED dbVars
       /\ (/\ response.op = "endInning" /\ response.code = 200
           /\ BallStep /\ response'.inningId = Len(innings)
           /\ response'.matchId = innings[Len(innings)].matchId)
          => LET i == response'.inningId
                 d == response'.d
             IN  IF matches[innings[i].matchId].status # "LIVE"
                 THEN response'.code = 400 /\ UNCHANGED dbVars
                 ELSE IF selectionPending(innings[i])
                 THEN response'.code = 409 /\ UNCHANGED dbVars
                 ELSE /\ response'.code = 201
                      /\ Len(balls') = Len(balls) + 1
                      /\ balls'[Len(balls')].inningId = i
                      /\ innings'[i].runs = innings[i].runs + runsToAddOf(d)]_vars

\* end-inning has been accepted on a LIVE inning that has a ball and its three
\* slots filled, so that the next delivery is due
C37_Witness ==
    /\ response.op = "endInning" /\ response.code = 200
    /\ Len(innings) = 1 /\ Len(balls) >= 1
    /\ matches[innings[1].matchId].status = "LIVE"
    /\ ~selectionPending(innings[1])

\* C38: the status of a match changes only from SCHEDULED to LIVE, by an
\* accepted start, and from SCHEDULED or LIVE to COMPLETED, by an accepted end;
\* once a match is COMPLETED no start, end, start-inning, record-ball or
\* select-bowler request changes its row or adds a ball or an inning to it.
C38_MatchStatusMovesForward ==
    [][\A m \in Matches :
          /\ matches'[m].status # matches[m].status =>
                \/ /\ matches[m].status = "SCHEDULED" /\ matches'[m].status = "LIVE"
                   /\ response'.op = "startMatch" /\ response'.code = 200
                \/ /\ matches[m].status \in {"SCHEDULED", "LIVE"}
                   /\ matches'[m].status = "COMPLETED"
                   /\ response'.op = "endMatch" /\ response'.code = 200
          /\ matches[m].status = "COMPLETED" =>
                /\ matches'[m] = matches[m]
                /\ Len(balls') > Len(balls)
                   => innings[balls'[Len(balls')].inningId].matchId # m
                /\ Len(innings') > Len(innings)
                   => innings'[Len(innings')].matchId # m
                /\ response'.op \in {"startMatch", "endMatch", "startInning",
                                     "recordBall", "selectBowler"}
                   => (response' = response \/ response'.code \in {400, 403, 404})]_vars

\* a match with balls in two innings is COMPLETED and the record-ball request
\* that followed was refused because the match is not LIVE
C38_Witness ==
    /\ response.op = "recordBall" /\ response.code = 400
    /\ response.matchId = "m1"
    /\ matches["m1"].status = "COMPLETED"
    /\ Len(innings) = 2 /\ Len(balls) >= 2

\* C39: the batting runs and bowling wickets of a match are added to the
\* lifetime totals of each player at most once, for any sequence and any
\* interleaving of end-match requests on the match.
C39_LifetimeTotalsAddedOnce ==
    \A p \in AllPlayers :
        /\ players[p].totalRuns
              <= SumField(battingEntries, 1..Len(innings), p, "runs")
        /\ players[p].totalWickets
              <= SumField(bowlingEntries, 1..Len(innings), p, "wickets")

\* C40: when the record-ball request answered last reported inningEnded for
\* the latest inning, the second or a later one, of a LIVE match, the end-match
\* request of the organiser that follows is accepted, and the winner it stores
\* is the batting team of the one of the last two innings with strictly more
\* runs, nobody when the runs are equal.
C40_ReportedEndAllowsEndMatch ==
    [][(/\ response.op = "recordBall" /\ response.code = 201 /\ response.inningEnded
        /\ response.matchId \in PlayedMatches
        /\ response.inningId = secondInningOf(response.matchId)
        /\ Cardinality(inningIdsOf(response.matchId)) >= 2
        /\ matches[response.matchId].status = "LIVE"
        /\ response'.op = "endMatch")
       => LET m == response.matchId
              last == innings[secondInningOf(m)]
              previous == innings[firstInningOf(m)]
          IN  /\ response'.code = 200
              /\ matches'[m].status = "COMPLETED"
              /\ matches'[m].winningTeamId
                    = IF last.runs > previous.runs THEN last.battingTeamId
                      ELSE IF last.runs < previous.runs THEN previous.battingTeamId
                      ELSE Null]_vars

====
